---------------------------- MODULE Spec2Model ----------------------------
(***************************************************************************)
(* Texas Hold'em (human vs. computer): the hand evaluator of               *)
(* src/GameFile.py (PokerGame.checkHand and its predicates), the betting   *)
(* handlers of PokerGame and the Deck of src/SpriteFile.py.                *)
(*                                                                         *)
(* A Python string is a sequence of one-character strings; a word that the *)
(* code compares as a whole ("Ace", "Flush") is a TLA+ string and Chars    *)
(* gives its characters.  Python indexes from 0, TLA+ from 1: a Python     *)
(* index k is k + 1 here, and every place where that matters says so.      *)
(***************************************************************************)
EXTENDS Integers, Sequences, FiniteSets, TLC

VARIABLES
    \* ---- PokerGame fields (GameFile.py:147-188) ----
    winner, userHand, computerHand,
    roundHasEnded, userFolded, computerHasTurn,
    userMoney, computerMoney,
    currentPot, currentWager, currentBeingRisked,
    userCard1, userCard2, computerCard1, computerCard2,
    displayCards, cardsInDisplay,
    startTime,
    raiseClickable, newRoundClickable, exitClickable,
    \* ---- Deck fields (SpriteFile.py:120-122) ----
    cardsInDeck, cardsOutOfDeck,
    deckMultiple,
    \* ---- control ----
    pc,          \* "start": before run(); "events": in run()'s loop; "quit",
                 \* "crashed", "exited": the process has ended
    rounds,      \* how many times __startNewRound has run in this behaviour
    \* ---- evaluator harness ----
    hand,        \* the list of Card objects given to the function under test
    result,      \* what the function returned (or the exception it raised)
    \* ---- deck harness ----
    calls        \* how many methods of the Deck have been called from outside

gameVars == <<winner, userHand, computerHand, roundHasEnded, userFolded,
              computerHasTurn, userMoney, computerMoney, currentPot,
              currentWager, currentBeingRisked, userCard1, userCard2,
              computerCard1, computerCard2, displayCards, cardsInDisplay,
              startTime, raiseClickable, newRoundClickable, exitClickable>>
deckVars == <<cardsInDeck, cardsOutOfDeck>>
ctlVars  == <<pc, rounds>>
evalVars == <<hand, result>>
harnessVars == <<deckMultiple, calls>>
vars == <<gameVars, deckVars, ctlVars, evalVars, harnessVars>>

-----------------------------------------------------------------------------
(* Strings *)

Chars ==
       "Ace"   :> <<"A","c","e">>
    @@ "Two"   :> <<"T","w","o">>
    @@ "Three" :> <<"T","h","r","e","e">>
    @@ "Four"  :> <<"F","o","u","r">>
    @@ "Five"  :> <<"F","i","v","e">>
    @@ "Six"   :> <<"S","i","x">>
    @@ "Seven" :> <<"S","e","v","e","n">>
    @@ "Eight" :> <<"E","i","g","h","t">>
    @@ "Nine"  :> <<"N","i","n","e">>
    @@ "Ten"   :> <<"T","e","n">>
    @@ "Jack"  :> <<"J","a","c","k">>
    @@ "Queen" :> <<"Q","u","e","e","n">>
    @@ "King"  :> <<"K","i","n","g">>
    @@ "Clubs"    :> <<"C","l","u","b","s">>
    @@ "Diamonds" :> <<"D","i","a","m","o","n","d","s">>
    @@ "Hearts"   :> <<"H","e","a","r","t","s">>
    @@ "Spades"   :> <<"S","p","a","d","e","s">>
    @@ "Empty"    :> <<"E","m","p","t","y">>
    @@ " of "     :> <<" ","o","f"," ">>

TYPES == <<"Ace", "Two", "Three", "Four", "Five", "Six", "Seven", "Eight",
           "Nine", "Ten", "Jack", "Queen", "King">>
SUITS == <<"Clubs", "Diamonds", "Hearts", "Spades">>

CARD_HANDS == <<"Royal Flush", "Straight Flush", "Four of a Kind",
                 "Full House", "Flush", "Straight", "Three of a Kind",
                 "Two Pairs", "One Pair", "No Pair">>

\* Deck.TYPES[1:] + ["Ace"]: the card names from lowest to highest.
aList == Tail(TYPES) \o <<"Ace">>

-----------------------------------------------------------------------------
(* Cards.  A Card object of the deck is [t, s]: its name is                *)
(* TYPES[t] + " of " + SUITS[s].  Card("Empty") is EmptyCard.              *)

DeckCards == [t : 1..Len(TYPES), s : 1..Len(SUITS)]
EmptyCard == [t |-> 0, s |-> 0]
AllCards  == DeckCards \cup {EmptyCard}

Card(aType, aSuit) ==
    [t |-> CHOOSE i \in 1..Len(TYPES) : TYPES[i] = aType,
     s |-> CHOOSE i \in 1..Len(SUITS) : SUITS[i] = aSuit]

NameOf(c) ==
    IF c = EmptyCard THEN Chars["Empty"]
    ELSE Chars[TYPES[c.t]] \o Chars[" of "] \o Chars[SUITS[c.s]]

\* A function over the cards, computed once and kept as a table.
Tabulate(f) == f @@ <<>>

\* Card.getCardName, for each card that exists.
getCardName == Tabulate([c \in AllCards |-> NameOf(c)])

\* str.split()[0]: the characters before the first blank.
RECURSIVE SplitFirstFrom(_, _)
SplitFirstFrom(s, i) ==
    IF i > Len(s) \/ s[i] = " " THEN <<>>
    ELSE <<s[i]>> \o SplitFirstFrom(s, i + 1)

firstWord == Tabulate([c \in AllCards |-> SplitFirstFrom(getCardName[c], 1)])

\* `sub in s` for Python strings.
IsSubstring(sub, s) ==
    \E i \in 0..(Len(s) - Len(sub)) :
        \A k \in 1..Len(sub) : s[i + k] = sub[k]

-----------------------------------------------------------------------------
(* Outcomes of a Python call that returns a bool: "True", "False", or the   *)
(* name of the exception that ends it.                                     *)

Bool(b) == IF b THEN "True" ELSE "False"

\* Python's `a and b`: b is evaluated only when a is True.
AndThen(a, b) == IF a = "True" THEN b ELSE a

\* Python None.
PyNone == "<None>"

\* s[a:b] of a Python list, 0 <= a, 0 <= b (slices clamp to the list).
Slice(s, a, b) == SubSeq(s, a + 1, IF b > Len(s) THEN Len(s) ELSE b)

\* `for k in range(len(aList)): if aList[k] == word: v = k` with v = 0 before
\* the loop: the Python index of word in aList, 0 when it is not there.
AListIndex(word) ==
    LET found == {k \in 1..Len(aList) : Chars[aList[k]] = word}
    IN  IF found = {} THEN 0
        ELSE (CHOOSE k \in found : \A m \in found : m <= k) - 1

rankIndex == Tabulate([c \in AllCards |-> AListIndex(firstWord[c])])

\* The Python indices k with aList[k] == name.split()[0], for each card.
aListMatches ==
    Tabulate([c \in AllCards |->
        {k \in 0..(Len(aList) - 1) : Chars[aList[k + 1]] = firstWord[c]}])

\* The words w of the code's lists with name.split()[0] == w, for each card.
wordMatches ==
    Tabulate([c \in AllCards |->
        {w \in {TYPES[k] : k \in 1..Len(TYPES)} : Chars[w] = firstWord[c]}])

\* The characters of a card's name that isFlush looks at, in order.
SuitLetters(name) ==
    SelectSeq(name, LAMBDA ch : ch = "C" \/ ch = "D" \/ ch = "H" \/ ch = "S")

suitLetters == Tabulate([c \in AllCards |-> SuitLetters(getCardName[c])])

\* The Python indices i of cardRanking with cardRanking[i] in the card's name.
typesInName ==
    Tabulate([c \in AllCards |->
        {k \in 0..(Len(aList) - 1) : IsSubstring(Chars[aList[k + 1]], getCardName[c])}])

-----------------------------------------------------------------------------
(* The evaluator's predicates (GameFile.py:587-795) *)

\* The largest member of a non-empty set of numbers, and the smallest.
Largest(S) == CHOOSE k \in S : \A m \in S : m <= k
Smallest(S) == CHOOSE k \in S : \A m \in S : k <= m

\* Lines 594-599: hits holds the Python indices i with cardRanking[i] in a name.
HighestRanking(hits) == IF hits = {} THEN PyNone ELSE aList[Largest(hits) + 1]

getHighCard(cards) ==
    HighestRanking(UNION {typesInName[cards[j]] : j \in 1..Len(cards)})

\* Lines 612-620: the first of C, D, H, S in the first card's name becomes
\* suitLetter; each of them met in a later name must equal it.
SameLetter(cards, suitLetter) ==
    Bool(\A i \in 2..Len(cards) :
            \A j \in 1..Len(suitLetters[cards[i]]) :
                suitLetters[cards[i]][j] = suitLetter)

isFlush(cards) ==
    SameLetter(cards, IF Len(cards) > 0 /\ suitLetters[cards[1]] # <<>>
                      THEN suitLetters[cards[1]][1]
                      ELSE "o")

\* The exchange sort of isStraight (lines 637-652); i and j are TLA+ indices.
RECURSIVE SortByRank(_, _, _)
SortByRank(temp, i, j) ==
    IF i > Len(temp) THEN temp
    ELSE IF j > Len(temp) THEN SortByRank(temp, i + 1, i + 2)
    ELSE IF rankIndex[temp[i]] > rankIndex[temp[j]]
         THEN SortByRank([temp EXCEPT ![i] = temp[j], ![j] = temp[i]], i, j + 1)
         ELSE SortByRank(temp, i, j + 1)

\* Lines 663-667: i is the Python loop index.
RECURSIVE StraightWalk(_, _, _)
StraightWalk(temp, startListIndex, i) ==
    IF i >= Len(temp) THEN "True"
    ELSE IF startListIndex + i >= Len(aList) THEN "IndexError"
    ELSE IF (startListIndex + i) \notin aListMatches[temp[i + 1]] THEN "False"
    ELSE StraightWalk(temp, startListIndex, i + 1)

\* PopHighAce as it would be if the Ace were never counted low:
\* WheelSevenIsStraight tells it from PopHighAce.
KeepHighAce(sorted) == sorted

\* Lines 655-659: an Ace at index 4 above a Two at index 0 is popped.
PopHighAce(sorted) ==
    IF "Ace" \in wordMatches[sorted[5]] /\ "Two" \in wordMatches[sorted[1]]
    THEN SubSeq(sorted, 1, 4) \o SubSeq(sorted, 6, Len(sorted))
    ELSE sorted

\* Lines 661-667: the walk starts at the rank of the first card.
WalkFromFirst(temp) == StraightWalk(temp, rankIndex[temp[1]], 1)

isStraight(cards) ==
    IF Len(cards) < 5 THEN "IndexError"
    ELSE WalkFromFirst(PopHighAce(SortByRank(cards, 1, 2)))

\* needed with the first of the entries at hit replaced.
MarkFirst(needed, hit) ==
    IF hit = {} THEN needed ELSE [needed EXCEPT ![Smallest(hit)] = "*"]

\* Lines 684-688: every name marks the first entry of needed that equals it.
RECURSIVE MarkNeeded(_, _, _)
MarkNeeded(needed, cards, n) ==
    IF n > Len(cards) THEN needed
    ELSE MarkNeeded(
            MarkFirst(needed, {i \in 1..Len(needed) : needed[i] \in wordMatches[cards[n]]}),
            cards, n + 1)

AllMarked(marked) == Bool(\A i \in 1..Len(marked) : marked[i] = "*")

\* isRoyalFlush as it would be if it never recognised a hand:
\* RoyalFlushSevenIsRoyalFlush tells it from isRoyalFlush.
isRoyalFlushNever(cards) == "False"

\* PokerGame.isRoyalFlush
isRoyalFlush(cards) ==
    IF isFlush(cards) # "True" THEN "False"
    ELSE AllMarked(MarkNeeded(SubSeq(TYPES, 10, Len(TYPES)) \o <<"Ace">>, cards, 1))

isStraightFlush(cards) == AndThen(isFlush(cards), isStraight(cards))

\* occurrences[j] of lines 720-727 and 746-752, j a Python index.
Occurrences(cards) ==
    Tabulate([j \in 0..(Len(TYPES) - 1) |->
        Cardinality({i \in 1..Len(cards) : j \in aListMatches[cards[i]]})])

\* Lines 729-733: some type occurs exactly X times.
SomeOccurs(occurrences, X) ==
    Bool(\E i \in 0..(Len(TYPES) - 1) : occurrences[i] = X)

isXofAKind(cards, X) ==
    IF X < 0 \/ X > 4 THEN "SystemExit"
    ELSE SomeOccurs(Occurrences(cards), X)

\* Lines 754-759: exactly two types occur exactly twice.
TwoOccurTwice(occurrences) ==
    Bool(Cardinality({i \in 0..(Len(TYPES) - 1) : occurrences[i] = 2}) = 2)

isTwoPairs(cards) == TwoOccurTwice(Occurrences(cards))

isOnePair(cards) == isXofAKind(cards, 2)

isFourOfAKind(cards) == isXofAKind(cards, 4)

isFullHouse(cards) == AndThen(isXofAKind(cards, 3), isXofAKind(cards, 2))

isThreeOfAKind(cards) == isXofAKind(cards, 3)

-----------------------------------------------------------------------------
(* checkHand (GameFile.py:544-585) *)

\* Lines 561-567 and 570-576: the `width` items of s from Python index start,
\* wrapping round to the front of s.
Window(s, start, width) ==
    IF start + width >= Len(s) + 1
    THEN Slice(s, start, Len(s)) \o Slice(s, 0, start + width - Len(s))
    ELSE Slice(s, start, start + width)

\* Lines 561-567: specificCards, one 6-card list for each Python index j.
SixCardLists(cards) ==
    Tabulate([j \in 0..(Len(cards) - 1) |-> Window(cards, j, 6)])

\* Lines 569-576: the 5-card lists of the n lists of m cards in specificCards,
\* in the order the loops over j and k produce them.
FiveCardLists(specificCards, n, m) ==
    Tabulate([x \in 1..(n * m) |->
        Window(specificCards[(x - 1) \div m], (x - 1) % m, 5)])

Temps(cards) ==
    FiveCardLists(SixCardLists(cards), Len(cards), Len(Window(cards, 0, 6)))

\* eval("PokerGame." + functions[i] + "(temp)"), i a Python index.
CallFunction(i, temp) ==
    CASE i = 0 -> isRoyalFlush(temp)
      [] i = 1 -> isStraightFlush(temp)
      [] i = 2 -> isFourOfAKind(temp)
      [] i = 3 -> isFullHouse(temp)
      [] i = 4 -> isFlush(temp)
      [] i = 5 -> isStraight(temp)
      [] i = 6 -> isThreeOfAKind(temp)
      [] i = 7 -> isTwoPairs(temp)
      [] i = 8 -> isOnePair(temp)

\* What function i returns for each 5-card list.
Outcomes(i, temps) ==
    Tabulate([x \in 1..Len(temps) |-> CallFunction(i, temps[x])])

\* The first list on which the function does not return False, 0 if none.
FirstStop(out) ==
    IF \A x \in 1..Len(out) : out[x] = "False" THEN 0
    ELSE Smallest({x \in 1..Len(out) : out[x] # "False"})

\* The loops of lines 559-583 from function i on; temps is Temps(cards).  The
\* first call that returns True names the hand, an exception ends checkHand.
RECURSIVE CheckFrom(_, _, _)
CheckAt(i, temps, holeCards, out, first) ==
    IF first = 0 THEN CheckFrom(i + 1, temps, holeCards)
    ELSE IF out[first] = "True" THEN CARD_HANDS[i + 1]
    ELSE out[first]

CheckWith(i, temps, holeCards, out) ==
    CheckAt(i, temps, holeCards, out, FirstStop(out))

CheckFrom(i, temps, holeCards) ==
    IF i > 8 THEN getHighCard(holeCards)
    ELSE CheckWith(i, temps, holeCards, Outcomes(i, temps))

\* checkHand over the seven cards: self._displayCards + the two hole cards.
CheckHandOf(cards) == CheckFrom(0, Temps(cards), Slice(cards, 5, Len(cards)))

-----------------------------------------------------------------------------
(* Inputs of the evaluator: every ordering of a few seven-card hands, and   *)
(* every ordered choice of five cards out of each.                         *)

NumBaseHands == 4

BaseHands == <<
    {Card("Six", "Clubs"), Card("Jack", "Spades"), Card("Queen", "Spades"),
     Card("King", "Spades"), Card("Ace", "Spades"), Card("Ace", "Clubs"),
     Card("Nine", "Diamonds")},
    {Card("Two", "Clubs"), Card("Three", "Clubs"), Card("Four", "Clubs"),
     Card("Five", "Clubs"), Card("Six", "Clubs"), Card("Nine", "Diamonds"),
     Card("King", "Hearts")},
    {Card("Ten", "Spades"), Card("Jack", "Spades"), Card("Queen", "Spades"),
     Card("King", "Spades"), Card("Ace", "Spades"), Card("Two", "Hearts"),
     Card("Three", "Diamonds")},
    {Card("Ace", "Spades"), Card("Two", "Diamonds"), Card("Three", "Hearts"),
     Card("Four", "Clubs"), Card("Five", "Spades"), Card("Nine", "Diamonds"),
     Card("King", "Hearts")},
    {Card("Two", "Clubs"), Card("Two", "Diamonds"), Card("Two", "Hearts"),
     Card("Five", "Spades"), Card("Five", "Diamonds"), Card("Nine", "Clubs"),
     Card("King", "Hearts")} >>

\* The lists of n distinct members of S.
RECURSIVE Arrangements(_, _)
Arrangements(S, n) ==
    IF n = 0 THEN {<<>>}
    ELSE UNION {{<<x>> \o rest : rest \in Arrangements(S \ {x}, n - 1)} : x \in S}

EvalHands(n) ==
    UNION {Arrangements(BaseHands[b], n) :
              b \in 1..(IF NumBaseHands < Len(BaseHands) THEN NumBaseHands ELSE Len(BaseHands))}

functions == <<"isRoyalFlush", "isStraightFlush", "isFourOfAKind", "isFullHouse",
               "isFlush", "isStraight", "isThreeOfAKind", "isTwoPairs", "isOnePair">>

-----------------------------------------------------------------------------
(* Program constants *)

MINIMUM_BET_WAGE == 20
START_BALANCE == 500

\* Button(color, x, y, width, height, text): where each button is.
foldButton     == [x |-> 20,  y |-> 20, width |-> 80,  height |-> 50]
callButton     == [x |-> 110, y |-> 20, width |-> 80,  height |-> 50]
raiseButton    == [x |-> 200, y |-> 20, width |-> 80,  height |-> 50]
newRoundButton == [x |-> 130, y |-> 20, width |-> 100, height |-> 50]
exitGameButton == [x |-> 40,  y |-> 20, width |-> 80,  height |-> 50]

mouseIsOver(button, pos) ==
    /\ button.x < pos[1] /\ pos[1] < button.x + button.width
    /\ button.y < pos[2] /\ pos[2] < button.y + button.height

-----------------------------------------------------------------------------
(* Deck (SpriteFile.py:111-218), for the deck of one 52-card set the game  *)
(* builds.                                                                 *)

\* Deck.__init__: the cards in the order the loops append them.
NewDeck(multiple) ==
    [i \in 1..(multiple * Len(TYPES) * Len(SUITS)) |->
        [t |-> (((i - 1) \div Len(SUITS)) % Len(TYPES)) + 1,
         s |-> ((i - 1) % Len(SUITS)) + 1]]

\* PopInsertFront as it would be if the card went to the back of the list:
\* ShuffleIsUnbiased tells it from PopInsertFront.
PopAppend(deck, num) ==
    SubSeq(deck, 1, num) \o SubSeq(deck, num + 2, Len(deck)) \o <<deck[num + 1]>>

\* list.pop(num) and list.insert(0, aCard), num a Python index.
PopInsertFront(deck, num) ==
    <<deck[num + 1]>> \o SubSeq(deck, 1, num) \o SubSeq(deck, num + 2, Len(deck))

IndexOf(deck, card) == (CHOOSE k \in 1..Len(deck) : deck[k] = card) - 1

\* The cards of deck that are not in picks, in the order of a new deck.
RestOf(deck, picks) ==
    SelectSeq(NewDeck(1), LAMBDA c : (\E k \in 1..Len(deck) : deck[k] = c)
                                    /\ ~(\E k \in 1..Len(picks) : picks[k] = c))

\* Deck.shuffle from step i on.  randint(i, len - 1) is an input, given by
\* the card it selects: step i pops the card order[i + 1], which lies at an
\* index >= i because the cards popped earlier are in front of it.
RECURSIVE ShuffleFrom(_, _, _)
ShuffleFrom(deck, order, i) ==
    IF i >= Len(deck) THEN deck
    ELSE ShuffleFrom(PopInsertFront(deck, IndexOf(deck, order[i + 1])), order, i + 1)

\* Deck.shuffle, for the random numbers that make getCardFromDeck hand out
\* picks first and the other cards in the order of a new deck after them
\* (the card popped at step i ends Len(deck) - i from the front, and
\* getCardFromDeck takes from the back).
shuffle(deck, picks) == ShuffleFrom(deck, picks \o RestOf(deck, picks), 0)

-----------------------------------------------------------------------------
(* The game object.  A handler is a function from the object before the    *)
(* call to the object after it; self.pc leaves "events" when the call ends  *)
(* the process ("crashed": an exception nobody catches; "exited": exit()). *)

Self ==
    [winner |-> winner, userHand |-> userHand, computerHand |-> computerHand,
     roundHasEnded |-> roundHasEnded, userFolded |-> userFolded,
     computerHasTurn |-> computerHasTurn,
     userMoney |-> userMoney, computerMoney |-> computerMoney,
     currentPot |-> currentPot, currentWager |-> currentWager,
     currentBeingRisked |-> currentBeingRisked,
     userCard1 |-> userCard1, userCard2 |-> userCard2,
     computerCard1 |-> computerCard1, computerCard2 |-> computerCard2,
     displayCards |-> displayCards, cardsInDisplay |-> cardsInDisplay,
     startTime |-> startTime,
     raiseClickable |-> raiseClickable, newRoundClickable |-> newRoundClickable,
     exitClickable |-> exitClickable,
     cardsInDeck |-> cardsInDeck, cardsOutOfDeck |-> cardsOutOfDeck,
     pc |-> pc, rounds |-> rounds]

Becomes(self) ==
    /\ winner' = self.winner
    /\ userHand' = self.userHand
    /\ computerHand' = self.computerHand
    /\ roundHasEnded' = self.roundHasEnded
    /\ userFolded' = self.userFolded
    /\ computerHasTurn' = self.computerHasTurn
    /\ userMoney' = self.userMoney
    /\ computerMoney' = self.computerMoney
    /\ currentPot' = self.currentPot
    /\ currentWager' = self.currentWager
    /\ currentBeingRisked' = self.currentBeingRisked
    /\ userCard1' = self.userCard1
    /\ userCard2' = self.userCard2
    /\ computerCard1' = self.computerCard1
    /\ computerCard2' = self.computerCard2
    /\ displayCards' = self.displayCards
    /\ cardsInDisplay' = self.cardsInDisplay
    /\ startTime' = self.startTime
    /\ raiseClickable' = self.raiseClickable
    /\ newRoundClickable' = self.newRoundClickable
    /\ exitClickable' = self.exitClickable
    /\ cardsInDeck' = self.cardsInDeck
    /\ cardsOutOfDeck' = self.cardsOutOfDeck
    /\ pc' = self.pc
    /\ rounds' = self.rounds

Halted(self) == self.pc # "events"

IsException(value) == value \in {"IndexError", "SystemExit", "ValueError"}

\* Deck.addAllCardsBackIntoDeck
addAllCardsBackIntoDeck(self) ==
    [self EXCEPT !.cardsInDeck = self.cardsOutOfDeck \o self.cardsInDeck,
                 !.cardsOutOfDeck = <<>>]

\* getCardFromDeck as it would be if the card came from the bottom of the
\* deck: DrawMovesTopCard tells it from getCardFromDeck.
getCardFromBottom(self) ==
    IF Len(self.cardsInDeck) = 0 THEN [self EXCEPT !.pc = "exited"]
    ELSE [self EXCEPT
            !.cardsInDeck = Tail(self.cardsInDeck),
            !.cardsOutOfDeck = Append(self.cardsOutOfDeck, Head(self.cardsInDeck))]

\* Deck.getCardFromDeck: the deck after the call; the card returned is the
\* last of cardsInDeck before it.
getCardFromDeck(self) ==
    IF Len(self.cardsInDeck) = 0 THEN [self EXCEPT !.pc = "exited"]
    ELSE [self EXCEPT
            !.cardsInDeck = SubSeq(self.cardsInDeck, 1, Len(self.cardsInDeck) - 1),
            !.cardsOutOfDeck = Append(self.cardsOutOfDeck,
                                      self.cardsInDeck[Len(self.cardsInDeck)])]

topCard(self) ==
    IF Len(self.cardsInDeck) = 0 THEN EmptyCard
    ELSE self.cardsInDeck[Len(self.cardsInDeck)]

\* The assignment of a drawn card, unless getCardFromDeck ended the process.
SetCard(drawn, field, card) ==
    IF Halted(drawn) THEN drawn ELSE [drawn EXCEPT ![field] = card]

SetDisplayCard(drawn, i, card) ==
    IF Halted(drawn) THEN drawn ELSE [drawn EXCEPT !.displayCards[i + 1] = card]

SetCardsInDisplay(drawn, n) ==
    IF Halted(drawn) THEN drawn ELSE [drawn EXCEPT !.cardsInDisplay = n]

\* self._userCard1 = self._cardDeck.getCardFromDeck(), and the like.
DrawCard(self, field) ==
    IF Halted(self) THEN self
    ELSE SetCard(getCardFromDeck(self), field, topCard(self))

\* self._displayCards[i] = self._cardDeck.getCardFromDeck(), i a Python index
\* (the set holds the game the card is drawn from, computed once).
DrawDisplayCard(self, i) ==
    CHOOSE drawn \in {IF Halted(from) THEN from
                      ELSE SetDisplayCard(getCardFromDeck(from), i, topCard(from)) :
                          from \in {self}} : TRUE

\* ResetRound as it would be if the count of the cards shown were kept:
\* NewRoundStartsAfresh tells it from ResetRound.
ResetRoundKeepsCount(self) ==
    [self EXCEPT !.winner = "No Winner", !.userHand = "None",
                 !.computerHand = "None", !.currentPot = 0,
                 !.currentWager = MINIMUM_BET_WAGE,
                 !.currentBeingRisked = 0,
                 !.roundHasEnded = FALSE, !.userFolded = FALSE]

\* Lines 199-213 of __startNewRound: the fields of the round start afresh.
ResetRound(self) ==
    [self EXCEPT !.winner = "No Winner", !.userHand = "None",
                 !.computerHand = "None", !.currentPot = 0,
                 !.currentWager = MINIMUM_BET_WAGE,
                 !.currentBeingRisked = 0,
                 !.roundHasEnded = FALSE, !.userFolded = FALSE,
                 !.cardsInDisplay = 0]

\* self._cardDeck.shuffle()
Shuffled(self, picks) ==
    [self EXCEPT !.cardsInDeck = shuffle(self.cardsInDeck, picks)]

\* PokerGame.__startNewRound; picks is what the shuffle's random numbers give.
startNewRound(self, picks) ==
    DrawCard(DrawCard(DrawCard(DrawCard(
        Shuffled(addAllCardsBackIntoDeck(ResetRound(self)), picks),
        "userCard1"), "userCard2"), "computerCard1"), "computerCard2")

\* ResetWager as it would be if a reveal kept the wager:
\* WagerIsMinimumOrTwice tells it from ResetWager.
KeepWager(self) == self

\* Lines 239, 251 and 259: the wager is the minimum again after a reveal.
ResetWager(self) == [self EXCEPT !.currentWager = MINIMUM_BET_WAGE]

\* PokerGame.__displayFlop
displayFlop(self) ==
    SetCardsInDisplay(
        DrawDisplayCard(DrawDisplayCard(DrawDisplayCard(ResetWager(self), 0), 1), 2), 3)

\* PokerGame.__displayFourthCard
displayFourthCard(self) ==
    SetCardsInDisplay(DrawDisplayCard(ResetWager(self), 3), 4)

\* __displayLastCard as it would be if it counted two cards shown:
\* RevealsInOrder tells it from displayLastCard.
displayLastCardMiscounted(self) ==
    SetCardsInDisplay(DrawDisplayCard(ResetWager(self), 4), 2)

\* PokerGame.__displayLastCard
displayLastCard(self) ==
    SetCardsInDisplay(DrawDisplayCard(ResetWager(self), 4), 5)

\* PokerGame.__displayNextCardSet
displayNextCardSet(self) ==
    IF self.cardsInDisplay = 0 THEN displayFlop(self)
    ELSE IF self.cardsInDisplay = 3 THEN displayFourthCard(self)
    ELSE IF self.cardsInDisplay = 4 THEN displayLastCard(self)
    ELSE self

-----------------------------------------------------------------------------
(* The shuffles examined: the nine cards a round can hand out, in the      *)
(* order getCardFromDeck returns them (two for the user, two for the       *)
(* computer, the flop, the fourth card, the last card).                    *)

NumDeals == 5
MaxRounds == 3

DealList == <<
    \* both hands One Pair; the user's hole cards hold the higher card, the
    \* community cards hold an Ace
    <<Card("King", "Clubs"), Card("Three", "Spades"),
      Card("Queen", "Diamonds"), Card("Eight", "Hearts"),
      Card("Ace", "Spades"), Card("Nine", "Diamonds"), Card("Nine", "Clubs"),
      Card("Four", "Hearts"), Card("Two", "Diamonds")>>,
    \* the user holds One Pair, the computer nothing
    <<Card("King", "Diamonds"), Card("Three", "Spades"),
      Card("Queen", "Clubs"), Card("Jack", "Hearts"),
      Card("King", "Spades"), Card("Ten", "Diamonds"), Card("Eight", "Clubs"),
      Card("Four", "Hearts"), Card("Two", "Diamonds")>>,
    \* both hands One Pair, both with a King as the higher hole card
    <<Card("King", "Clubs"), Card("Three", "Spades"),
      Card("King", "Diamonds"), Card("Five", "Hearts"),
      Card("Nine", "Diamonds"), Card("Nine", "Clubs"), Card("Four", "Hearts"),
      Card("Two", "Diamonds"), Card("Jack", "Spades")>>,
    \* the user's seven cards hold Jack, Queen, King, Ace, Ace
    <<Card("Ace", "Clubs"), Card("Ace", "Diamonds"),
      Card("Nine", "Spades"), Card("Four", "Hearts"),
      Card("Jack", "Spades"), Card("Queen", "Diamonds"), Card("King", "Hearts"),
      Card("Three", "Clubs"), Card("Eight", "Diamonds")>>,
    \* the user holds One Pair, the computer Two Pairs
    <<Card("King", "Clubs"), Card("Three", "Spades"),
      Card("Five", "Diamonds"), Card("Nine", "Hearts"),
      Card("Ten", "Spades"), Card("Ten", "Diamonds"), Card("Five", "Clubs"),
      Card("Four", "Hearts"), Card("Two", "Diamonds")>>,
    \* the user holds nothing, the computer One Pair
    <<Card("Queen", "Clubs"), Card("Jack", "Hearts"),
      Card("King", "Diamonds"), Card("Three", "Spades"),
      Card("King", "Spades"), Card("Ten", "Diamonds"), Card("Eight", "Clubs"),
      Card("Four", "Hearts"), Card("Two", "Diamonds")>> >>

Deals == {DealList[d] : d \in 1..(IF NumDeals < Len(DealList) THEN NumDeals ELSE Len(DealList))}

\* The lists of seven cards checkHand can be given when every shuffle is one
\* of Deals: the table shows the first n community cards of this round and,
\* behind them, what the round before left there.
TableHands ==
    LET before == {<<EmptyCard, EmptyCard, EmptyCard, EmptyCard, EmptyCard>>}
                    \cup {SubSeq(d, 5, 9) : d \in Deals}
    IN  UNION {{SubSeq(d, 5, 4 + n) \o SubSeq(old, n + 1, 5) \o hole :
                    old \in before, n \in {0, 3, 4, 5},
                    hole \in {SubSeq(d, 1, 2), SubSeq(d, 3, 4)}} : d \in Deals}

\* CheckHandOf over TableHands, computed once.
checkHandTable == Tabulate([cards \in TableHands |-> CheckHandOf(cards)])

\* checkHand on a list of seven cards.
CheckHandOn(cards) ==
    IF cards \in DOMAIN checkHandTable THEN checkHandTable[cards]
    ELSE CheckHandOf(cards)

\* PokerGame.checkHand
checkHand(self, forUser) ==
    CheckHandOn(IF forUser
                THEN self.displayCards \o <<self.userCard1, self.userCard2>>
                ELSE self.displayCards \o <<self.computerCard1, self.computerCard2>>)

\* Lines 321-322 (and 354-355, 375-376) once the two calls of checkHand have
\* given forUser and forComputer: an exception ends the process where it is
\* raised.
SetHands(self, forUser, forComputer) ==
    IF IsException(forUser) THEN [self EXCEPT !.pc = "crashed"]
    ELSE IF IsException(forComputer)
    THEN [self EXCEPT !.userHand = forUser, !.pc = "crashed"]
    ELSE [self EXCEPT !.userHand = forUser, !.computerHand = forComputer]

\* self._userHand = self.checkHand(True); self._computerHand = self.checkHand(False)
EvaluateHands(self) ==
    IF Halted(self) THEN self
    ELSE SetHands(self, checkHand(self, TRUE), checkHand(self, FALSE))

\* list.index(x) of a Python list: -1 stands for the ValueError of a missing x.
ListIndex(list, x) ==
    IF \E k \in 1..Len(list) : list[k] = x
    THEN (CHOOSE k \in 1..Len(list) : list[k] = x /\ \A m \in 1..(k - 1) : list[m] # x) - 1
    ELSE -1

\* Compare as it would be if equal hands were always a push: ShowdownTieBreak
\* tells it from Compare.
CompareWithoutHighCard(userScore, computerScore, userCardScore, compCardScore) ==
    IF userScore >= 0 /\ computerScore >= 0
    THEN IF userScore < computerScore THEN "User"
         ELSE IF userScore > computerScore THEN "Computer"
         ELSE "Nobody"
    ELSE IF userScore = -1 /\ computerScore = -1 THEN "Nobody"
    ELSE IF userScore = -1 THEN "Computer"
    ELSE "User"

\* Compare as it would be if the higher index in _CARD_HANDS won:
\* StrongerHandWins tells it from Compare.
CompareHigherIndexWins(userScore, computerScore, userCardScore, compCardScore) ==
    IF userScore >= 0 /\ computerScore >= 0
    THEN IF userScore > computerScore THEN "User"
         ELSE IF userScore < computerScore THEN "Computer"
         ELSE IF userCardScore > compCardScore THEN "User"
         ELSE IF userCardScore < compCardScore THEN "Computer"
         ELSE "Nobody"
    ELSE IF userScore = -1 /\ computerScore = -1
    THEN IF userCardScore > compCardScore THEN "User"
         ELSE IF userCardScore < compCardScore THEN "Computer"
         ELSE "Nobody"
    ELSE IF userScore = -1 THEN "Computer"
    ELSE "User"

\* Lines 411-439 of determineWinner: who wins.  A score of -1 is a hand name
\* that is not in _CARD_HANDS (the ValueError the code catches).
Compare(userScore, computerScore, userCardScore, compCardScore) ==
    IF userScore >= 0 /\ computerScore >= 0
    THEN IF userScore < computerScore THEN "User"
         ELSE IF userScore > computerScore THEN "Computer"
         ELSE IF userCardScore > compCardScore THEN "User"
         ELSE IF userCardScore < compCardScore THEN "Computer"
         ELSE "Nobody"
    ELSE IF userScore = -1 /\ computerScore = -1
    THEN IF userCardScore > compCardScore THEN "User"
         ELSE IF userCardScore < compCardScore THEN "Computer"
         ELSE "Nobody"
    ELSE IF userScore = -1 THEN "Computer"
    ELSE "User"

WinnerOf(userHandName, computerHandName, userCardScore, compCardScore) ==
    Compare(ListIndex(CARD_HANDS, userHandName), ListIndex(CARD_HANDS, computerHandName),
            userCardScore, compCardScore)

\* The cards whose highest decides between equal hands (lines 403-404).
UserTieBreakCards(self) == <<self.userCard1, self.userCard2>>
ComputerTieBreakCards(self) == <<self.computerCard1, self.computerCard2>>

\* HalfOf as it would be if the split lost a unit: SplitIsExact tells it
\* from HalfOf.
HalfOfLessOne(amount) == (amount - 1) \div 2

\* self._currentPot / 2 (the pot is even whenever it is split).
HalfOf(amount) == amount \div 2

\* PayWinner as it would be if a push gave the whole pot to each player:
\* PotGoesToPlayersOrIsReset tells it from PayWinner.
PayWinnerNoSplit(self, who) ==
    [self EXCEPT
        !.winner = who,
        !.userMoney = IF who = "Computer" THEN @ ELSE @ + self.currentPot,
        !.computerMoney = IF who = "User" THEN @ ELSE @ + self.currentPot,
        !.currentPot = 0, !.currentWager = MINIMUM_BET_WAGE,
        !.currentBeingRisked = 0, !.roundHasEnded = TRUE]

\* Lines 441-454 of determineWinner: the pot is paid and the round closed.
PayWinner(self, who) ==
    [self EXCEPT
        !.winner = who,
        !.userMoney = IF who = "User" THEN @ + self.currentPot
                      ELSE IF who = "Computer" THEN @
                      ELSE @ + HalfOf(self.currentPot),
        !.computerMoney = IF who = "User" THEN @
                          ELSE IF who = "Computer" THEN @ + self.currentPot
                          ELSE @ + HalfOf(self.currentPot),
        !.currentPot = 0, !.currentWager = MINIMUM_BET_WAGE,
        !.currentBeingRisked = 0, !.roundHasEnded = TRUE]

\* determineWinner once aList.index has given the two card scores.
Decide(self, userCardScore, compCardScore) ==
    IF userCardScore = -1 \/ compCardScore = -1 THEN [self EXCEPT !.pc = "crashed"]
    ELSE PayWinner(self, WinnerOf(self.userHand, self.computerHand,
                                  userCardScore, compCardScore))

\* PokerGame.determineWinner
determineWinner(self) ==
    IF Halted(self) THEN self
    ELSE Decide(self, ListIndex(aList, getHighCard(UserTieBreakCards(self))),
                      ListIndex(aList, getHighCard(ComputerTieBreakCards(self))))

\* __executeComputerCall as it would be if the computer raised on its own:
\* ComputerMirrorsHuman tells it from executeComputerCall.
executeComputerRaise(self) ==
    [self EXCEPT !.computerMoney = @ - 2 * self.currentWager,
                 !.currentPot = @ + 2 * self.currentWager,
                 !.computerHasTurn = TRUE]

\* PokerGame.__executeComputerCall
executeComputerCall(self) ==
    [self EXCEPT !.computerMoney = @ - self.currentWager,
                 !.currentPot = @ + self.currentWager,
                 !.computerHasTurn = TRUE]

\* FoldPot as it would be if the pot went to nobody:
\* MoneyIsConserved tells it from FoldPot.
FoldPotVanishes(self) ==
    [self EXCEPT !.currentPot = 0,
                 !.currentWager = MINIMUM_BET_WAGE,
                 !.currentBeingRisked = 0,
                 !.roundHasEnded = TRUE,
                 !.winner = "Computer",
                 !.userFolded = TRUE]

\* FoldPot as it would be if the pot went back to the user:
\* FoldGivesPotToComputer tells it from FoldPot.
FoldPotToUser(self) ==
    [self EXCEPT !.userMoney = @ + self.currentPot,
                 !.currentPot = 0,
                 !.currentWager = MINIMUM_BET_WAGE,
                 !.currentBeingRisked = 0,
                 !.roundHasEnded = TRUE,
                 !.winner = "Computer",
                 !.userFolded = TRUE]

\* Lines 311-319 of __fold: the pot goes to the computer, the round is closed.
FoldPot(self) ==
    [self EXCEPT !.computerMoney = @ + self.currentPot,
                 !.currentPot = 0,
                 !.currentWager = MINIMUM_BET_WAGE,
                 !.currentBeingRisked = 0,
                 !.roundHasEnded = TRUE,
                 !.winner = "Computer",
                 !.userFolded = TRUE]

\* RevealAfterFold as it would be if a fold showed cards whatever the number
\* of cards shown: NineCardsSuffice tells it from RevealAfterFold.
RevealWhateverShown(self, n) ==
    IF Halted(self) THEN self
    ELSE IF n = 0 THEN displayFlop(self)
    ELSE IF n = 3 THEN displayFourthCard(self)
    ELSE displayLastCard(self)

\* Lines 325-331 of __fold: `if self._cardsInDisplay == n:` show the next cards.
RevealAfterFold(self, n) ==
    IF Halted(self) \/ self.cardsInDisplay # n THEN self
    ELSE IF n = 0 THEN displayFlop(self)
    ELSE IF n = 3 THEN displayFourthCard(self)
    ELSE displayLastCard(self)

\* PokerGame.__fold
fold(self) ==
    RevealAfterFold(RevealAfterFold(RevealAfterFold(
        EvaluateHands(FoldPot(self)), 0), 3), 4)

\* Lines 353-357 and 374-378: the last bet has been placed.
Showdown(self) ==
    IF self.cardsInDisplay = 5 THEN determineWinner(EvaluateHands(self)) ELSE self

\* call as it would be without the test of line 337:
\* HumanBalanceNonNegative tells it from call.
callWithoutTest(self) ==
    Showdown(executeComputerCall(
        [self EXCEPT !.userMoney = @ - self.currentWager,
                     !.currentPot = @ + self.currentWager,
                     !.currentBeingRisked = @ + self.currentWager]))

\* call as it would be if a Call the balance does not cover were a plain
\* Fold, the balances kept: BankruptCallResets tells it from call.
callWithoutReset(self) ==
    IF self.userMoney - self.currentWager < 0
    THEN fold(self)
    ELSE Showdown(executeComputerCall(
            [self EXCEPT !.userMoney = @ - self.currentWager,
                         !.currentPot = @ + self.currentWager,
                         !.currentBeingRisked = @ + self.currentWager]))

\* PokerGame.__call
call(self) ==
    IF self.userMoney - self.currentWager < 0
    THEN fold([self EXCEPT !.userMoney = START_BALANCE,
                           !.computerMoney = START_BALANCE,
                           !.currentPot = 0,
                           !.currentBeingRisked = 0])
    ELSE Showdown(executeComputerCall(
            [self EXCEPT !.userMoney = @ - self.currentWager,
                         !.currentPot = @ + self.currentWager,
                         !.currentBeingRisked = @ + self.currentWager]))

\* Lines 365-378 of __raise, the wager already doubled.
PlaceRaise(self) ==
    Showdown(executeComputerCall(
        [self EXCEPT !.userMoney = @ - self.currentWager,
                     !.currentPot = @ + self.currentWager,
                     !.currentBeingRisked = @ + self.currentWager]))

\* raise as it would be without the test of line 362:
\* RaiseWithoutFundsChangesNothing tells it from raise.
raiseWithoutTest(self) == PlaceRaise([self EXCEPT !.currentWager = @ * 2])

\* PokerGame.__raise
raise(self) ==
    IF self.userMoney < 2 * self.currentWager THEN self
    ELSE PlaceRaise([self EXCEPT !.currentWager = @ * 2])

\* PokerGame.__checkForClickabilityChanges
checkForClickabilityChanges(self) ==
    [self EXCEPT
        !.raiseClickable =
            IF self.userMoney < self.currentWager * 2 THEN FALSE
            ELSE IF ~self.raiseClickable /\ self.userMoney >= self.currentWager * 2
            THEN TRUE
            ELSE @,
        !.newRoundClickable =
            IF self.roundHasEnded /\ (~self.newRoundClickable \/ ~self.exitClickable)
            THEN TRUE
            ELSE IF ~self.roundHasEnded /\ (self.newRoundClickable \/ self.exitClickable)
            THEN FALSE
            ELSE @,
        !.exitClickable =
            IF self.roundHasEnded /\ (~self.newRoundClickable \/ ~self.exitClickable)
            THEN TRUE
            ELSE IF ~self.roundHasEnded /\ (self.newRoundClickable \/ self.exitClickable)
            THEN FALSE
            ELSE @]

-----------------------------------------------------------------------------
(* Input handlers and the loop of PokerGame.run *)

FoldKeys == {"K_RETURN", "K_q"}
Keys == FoldKeys \cup {"K_SPACE"}

\* One point of the window for each way the five buttons overlap.
MousePositions == {<<x, 45>> : x \in {30, 70, 105, 115, 125, 160, 195, 215, 250, 300}}

\* Line 281: self._startTime = time.time(), 0 standing for any time.
StampTime(folded) ==
    IF Halted(folded) THEN folded ELSE [folded EXCEPT !.startTime = 0]

\* PokerGame.keyDown; elapsed: more than 0.05 s have passed since _startTime.
keyDown(self, key, elapsed) ==
    IF key \in FoldKeys /\ (self.startTime = -1 \/ elapsed)
    THEN StampTime(fold(self))
    ELSE self

\* mouseButtonDown as it would be without the test of the computer's turn:
\* NewRoundOnlyWhenOver tells it from mouseButtonDown.
mouseButtonDownDuringWait(self, pos, picks) ==
    IF ~self.roundHasEnded
    THEN IF mouseIsOver(foldButton, pos) THEN fold(self)
         ELSE IF mouseIsOver(callButton, pos) THEN call(self)
         ELSE IF mouseIsOver(raiseButton, pos) /\ self.raiseClickable THEN raise(self)
         ELSE self
    ELSE IF mouseIsOver(newRoundButton, pos) /\ self.newRoundClickable
         THEN startNewRound([self EXCEPT !.rounds = @ + 1], picks)
         ELSE IF mouseIsOver(exitGameButton, pos) /\ self.exitClickable
         THEN [self EXCEPT !.pc = "quit"]
         ELSE self

\* PokerGame.mouseButtonDown; picks is the shuffle a new round would make.
\* The Fold and Call buttons are clickable from construction on.
mouseButtonDown(self, pos, picks) ==
    IF self.computerHasTurn THEN self
    ELSE IF ~self.roundHasEnded
    THEN IF mouseIsOver(foldButton, pos) THEN fold(self)
         ELSE IF mouseIsOver(callButton, pos) THEN call(self)
         ELSE IF mouseIsOver(raiseButton, pos) /\ self.raiseClickable THEN raise(self)
         ELSE self
    ELSE IF mouseIsOver(newRoundButton, pos) /\ self.newRoundClickable
         THEN startNewRound([self EXCEPT !.rounds = @ + 1], picks)
         ELSE IF mouseIsOver(exitGameButton, pos) /\ self.exitClickable
         THEN [self EXCEPT !.pc = "quit"]
         ELSE self

\* EndComputerTurn as it would be if the computer's turn were never ended:
\* WaitExpiresAndReveals tells it from EndComputerTurn.
KeepComputerTurn(shown) == shown

\* Line 807: the computer's turn is over once the cards are shown.
EndComputerTurn(shown) ==
    IF Halted(shown) THEN shown ELSE [shown EXCEPT !.computerHasTurn = FALSE]

\* Lines 805-807 of run; elapsed: _COMPUTER_WAIT_TIME has passed since the
\* computer's turn began.
ComputerWait(self, elapsed) ==
    IF self.computerHasTurn /\ elapsed
    THEN EndComputerTurn(displayNextCardSet(self))
    ELSE self

\* The end of one pass of run()'s loop (line 818) and the head of the next.
frame(self, elapsed) == ComputerWait(checkForClickabilityChanges(self), elapsed)

\* PokerGame.__init__
Constructed(picks) ==
    [winner |-> "No Winner", userHand |-> "None", computerHand |-> "None",
     roundHasEnded |-> FALSE, userFolded |-> FALSE, computerHasTurn |-> FALSE,
     userMoney |-> START_BALANCE, computerMoney |-> START_BALANCE,
     currentPot |-> 0, currentWager |-> MINIMUM_BET_WAGE, currentBeingRisked |-> 0,
     userCard1 |-> EmptyCard, userCard2 |-> EmptyCard,
     computerCard1 |-> EmptyCard, computerCard2 |-> EmptyCard,
     displayCards |-> <<EmptyCard, EmptyCard, EmptyCard, EmptyCard, EmptyCard>>,
     cardsInDisplay |-> 0,
     startTime |-> -1,
     raiseClickable |-> TRUE, newRoundClickable |-> TRUE, exitClickable |-> TRUE,
     cardsInDeck |-> shuffle(NewDeck(1), picks), cardsOutOfDeck |-> <<>>,
     pc |-> "start", rounds |-> 0]

\* One input, a step of Next: a click at a position, or a pass of the loop
\* (whether the computer's wait has elapsed).
PlayOne(self, input) ==
    IF input[1] = "frame" THEN frame(self, input[2])
    ELSE mouseButtonDown(self, input[2], DealList[1])

\* The game after the inputs of a list, played in order: the first half of
\* the list, then the rest from the game the first half leaves (the set holds
\* that game, computed before the rest is played).
RECURSIVE Play(_, _)
Play(self, inputs) ==
    IF inputs = <<>> THEN self
    ELSE IF Len(inputs) = 1 THEN PlayOne(self, inputs[1])
    ELSE CHOOSE last \in
             {Play(half, SubSeq(inputs, Len(inputs) \div 2 + 1, Len(inputs))) :
                  half \in {Play(self, SubSeq(inputs, 1, Len(inputs) \div 2))}} : TRUE

\* A round the user loses and the start of the next: three clicks on Raise,
\* each followed by the computer's reveal, a click on Fold, a pass of the
\* loop that enables New Round, and the click on it.
LostRound ==
    << <<"click", <<250, 45>> >>, <<"frame", TRUE>>,
       <<"click", <<250, 45>> >>, <<"frame", TRUE>>,
       <<"click", <<250, 45>> >>, <<"frame", TRUE>>,
       <<"click", <<30, 45>> >>,  <<"frame", FALSE>>,
       <<"click", <<195, 45>> >>, <<"frame", FALSE>> >>

RECURSIVE Times(_, _)
Times(inputs, n) == IF n = 0 THEN <<>> ELSE inputs \o Times(inputs, n - 1)

\* The game after n lost rounds, the next round just dealt.
AfterLostRounds(n) ==
    Play(startNewRound([Constructed(DealList[1]) EXCEPT !.pc = "events"], DealList[1]),
         Times(LostRound, n))

LostRounds == 5

\* A round the user wins at showdown (the first deal of DealList gives the
\* user the higher hole card) and the start of the next: four clicks on
\* Raise, each followed by the pass of the loop that ends the computer's
\* turn (the last of them enables New Round), and the click on New Round.
WonRound ==
    << <<"click", <<250, 45>> >>, <<"frame", TRUE>>,
       <<"click", <<250, 45>> >>, <<"frame", TRUE>>,
       <<"click", <<250, 45>> >>, <<"frame", TRUE>>,
       <<"click", <<250, 45>> >>, <<"frame", TRUE>>,
       <<"click", <<195, 45>> >>, <<"frame", FALSE>> >>

\* The game after n won rounds, the next round just dealt.
AfterWonRounds(n) ==
    Play(startNewRound([Constructed(DealList[1]) EXCEPT !.pc = "events"], DealList[1]),
         Times(WonRound, n))

WonRounds == 3

NoResult == [fn |-> "none", out |-> "none"]

\* The game when the process starts or, with the balances that LostRounds
\* lost rounds or WonRounds won rounds leave, at the start of a later round.
StartsAs(self) ==
    /\ winner = self.winner
    /\ userHand = self.userHand
    /\ computerHand = self.computerHand
    /\ roundHasEnded = self.roundHasEnded
    /\ userFolded = self.userFolded
    /\ computerHasTurn = self.computerHasTurn
    /\ userMoney = self.userMoney
    /\ computerMoney = self.computerMoney
    /\ currentPot = self.currentPot
    /\ currentWager = self.currentWager
    /\ currentBeingRisked = self.currentBeingRisked
    /\ userCard1 = self.userCard1
    /\ userCard2 = self.userCard2
    /\ computerCard1 = self.computerCard1
    /\ computerCard2 = self.computerCard2
    /\ displayCards = self.displayCards
    /\ cardsInDisplay = self.cardsInDisplay
    /\ startTime = self.startTime
    /\ raiseClickable = self.raiseClickable
    /\ newRoundClickable = self.newRoundClickable
    /\ exitClickable = self.exitClickable
    /\ cardsInDeck = self.cardsInDeck
    /\ cardsOutOfDeck = self.cardsOutOfDeck
    /\ pc = self.pc
    /\ rounds = self.rounds

Init ==
    /\ \E self \in {Constructed(picks) : picks \in Deals}
                   \cup {[AfterLostRounds(LostRounds) EXCEPT !.rounds = 1],
                         [AfterWonRounds(WonRounds) EXCEPT !.rounds = 1]} :
           StartsAs(self)
    /\ hand = <<>>
    /\ result = NoResult
    /\ deckMultiple = 1
    /\ calls = 0

\* The head of PokerGame.run: the first round is dealt.
Run ==
    /\ pc = "start"
    /\ \E after \in {startNewRound([Self EXCEPT !.pc = "events", !.rounds = 1], picks) :
                           picks \in Deals} :
           Becomes(after)
    /\ UNCHANGED <<evalVars, harnessVars>>

\* A KEYDOWN event.
KeyDown ==
    /\ pc = "events"
    /\ \E after \in {keyDown(Self, key, elapsed) : key \in Keys, elapsed \in BOOLEAN} :
           Becomes(after)
    /\ UNCHANGED <<evalVars, harnessVars>>

\* A MOUSEBUTTONDOWN event.
MouseButtonDown ==
    /\ pc = "events"
    /\ \E after \in {mouseButtonDown(Self, pos, picks) :
                           pos \in MousePositions, picks \in Deals} :
           /\ after.rounds <= MaxRounds
           /\ Becomes(after)
    /\ UNCHANGED <<evalVars, harnessVars>>

\* A QUIT event.
QuitEvent ==
    /\ pc = "events"
    /\ Becomes([Self EXCEPT !.pc = "quit"])
    /\ UNCHANGED <<evalVars, harnessVars>>

\* The events are used up: the loop finishes its pass and starts the next.
Frame ==
    /\ pc = "events"
    /\ \E after \in {frame(Self, elapsed) : elapsed \in BOOLEAN} : Becomes(after)
    /\ UNCHANGED <<evalVars, harnessVars>>

Next == Run \/ KeyDown \/ MouseButtonDown \/ QuitEvent \/ Frame

Spec == Init /\ [][Next]_vars

\* The pass of the loop that finds _COMPUTER_WAIT_TIME elapsed: line 818 of
\* the pass before, then lines 805-807.
Expire ==
    /\ pc = "events"
    /\ computerHasTurn
    /\ \E checked \in {checkForClickabilityChanges(Self)} :
           \E shown \in {displayNextCardSet(checked)} :
               \E after \in {EndComputerTurn(shown)} : Becomes(after)
    /\ UNCHANGED <<evalVars, harnessVars>>

\* The loop of run keeps passing and the clock keeps running: a wait that is
\* pending is found elapsed in the end.
SpecFair == Spec /\ WF_vars(Expire)

-----------------------------------------------------------------------------
(* The hand evaluator on its own: checkHand on seven cards, the nine
   predicates on five. *)

InitEval ==
    /\ StartsAs(Constructed(DealList[1]))
    /\ hand \in EvalHands(7) \cup EvalHands(5)
    /\ result = NoResult
    /\ deckMultiple = 1
    /\ calls = 0

CheckHand ==
    /\ Len(hand) = 7
    /\ result = NoResult
    /\ result' = [fn |-> "checkHand", out |-> CheckHandOf(hand)]
    /\ UNCHANGED <<hand, gameVars, deckVars, ctlVars, harnessVars>>

CallPredicate ==
    /\ Len(hand) = 5
    /\ result = NoResult
    /\ \E i \in 0..(Len(functions) - 1) :
           result' = [fn |-> functions[i + 1], out |-> CallFunction(i, hand)]
    /\ UNCHANGED <<hand, gameVars, deckVars, ctlVars, harnessVars>>

NextEval == CheckHand \/ CallPredicate

SpecEval == InitEval /\ [][NextEval]_vars

-----------------------------------------------------------------------------
(* The Deck on its own: a Deck(deckMultiple) and calls of its methods.     *)

\* Card.getType
getType(card) == firstWord[card]

\* Deck.__isInDeck
isInDeck(cardParam, deckOfCards) ==
    \E k \in 1..Len(deckOfCards) : getType(cardParam) = getType(deckOfCards[k])

\* The '0' that takes the place of a card of cardList (line 169).
Rejected == [t |-> -1, s |-> -1]

\* PopFirstOfType as it would be if the card stayed out of the deck:
\* DeckCountKept tells it from PopFirstOfType.
PopNothing(out, card) == out

\* Lines 171-174: self._cardsOutOfDeck.pop(j) for the first j whose card has
\* the type of the card.
PopFirstOfType(out, card) ==
    SelectSeq([k \in 1..Len(out) |->
                  IF k = Smallest({j \in 1..Len(out) : getType(out[j]) = getType(card)})
                  THEN Rejected ELSE out[k]],
              LAMBDA c : c # Rejected)

\* Lines 166-174 of addSpecificCardsBackIntoDeck from Python index i on.
RECURSIVE MarkAndPop(_, _, _)
MarkAndPop(cardList, out, i) ==
    IF i >= Len(cardList) THEN [cardList |-> cardList, cardsOutOfDeck |-> out]
    ELSE IF ~isInDeck(cardList[i + 1], out)
    THEN MarkAndPop([cardList EXCEPT ![i + 1] = Rejected], out, i + 1)
    ELSE MarkAndPop(cardList, PopFirstOfType(out, cardList[i + 1]), i + 1)

\* Lines 176-179: the '0's are removed and the list goes to the bottom.
AddBack(self, marked) ==
    [self EXCEPT
        !.cardsInDeck = SelectSeq(marked.cardList, LAMBDA c : c # Rejected) \o @,
        !.cardsOutOfDeck = marked.cardsOutOfDeck]

\* Deck.addSpecificCardsBackIntoDeck
addSpecificCardsBackIntoDeck(self, cardList) ==
    AddBack(self, MarkAndPop(cardList, self.cardsOutOfDeck, 0))

\* Deck.shuffle from step i on, nums[i + 1] being what randint(i, len - 1)
\* returns at step i.
RECURSIVE ShuffleWith(_, _, _)
ShuffleWith(deck, nums, i) ==
    IF i >= Len(deck) THEN deck
    ELSE ShuffleWith(PopInsertFront(deck, nums[i + 1]), nums, i + 1)

\* Deck.shuffle
shuffleDeck(self, nums) ==
    [self EXCEPT !.cardsInDeck = ShuffleWith(self.cardsInDeck, nums, 0)]

MaxDeckMultiple == 2
MaxShuffled == 3
MaxCalls == 3

\* What randint(i, n - 1), i = 0..n-1, can return in a shuffle of n cards.
RandomChoices(n) ==
    {nums \in [1..n -> 0..(n - 1)] : \A i \in 1..n : nums[i] >= i - 1}

\* The random numbers examined: all of them for a deck of up to MaxShuffled
\* cards; for a larger deck always the lowest and always the highest.
ShuffleChoices(n) ==
    IF n <= MaxShuffled THEN RandomChoices(n)
    ELSE {[i \in 1..n |-> i - 1], [i \in 1..n |-> n - 1]}

\* The lists given to addSpecificCardsBackIntoDeck.
CardLists ==
    {<<>>,
     <<Card("King", "Spades")>>,
     <<Card("King", "Clubs")>>,
     <<Card("King", "Spades"), Card("King", "Spades")>>,
     <<Card("Two", "Clubs"), Card("King", "Hearts")>>}

\* A Deck(multiple) as __init__ leaves it (the game fields are not used).
NewDeckObject(multiple) ==
    [Constructed(DealList[1]) EXCEPT !.cardsInDeck = NewDeck(multiple),
                                     !.cardsOutOfDeck = <<>>]

\* The deck after n calls of getCardFromDeck.
RECURSIVE Drawn(_, _)
Drawn(self, n) ==
    IF n = 0 THEN self
    ELSE IF n = 1 THEN getCardFromDeck(self)
    ELSE CHOOSE last \in {Drawn(half, n - (n \div 2)) : half \in {Drawn(self, n \div 2)}} : TRUE

\* The behaviours start with a new deck, or with a deck from which all but
\* a few cards have been drawn.
DrawsAtStart(multiple) ==
    {0} \cup {Len(NewDeck(multiple)) - k : k \in 0..MaxShuffled}

InitDeck ==
    /\ deckMultiple \in 1..MaxDeckMultiple
    /\ \E self \in {Drawn(NewDeckObject(deckMultiple), n) :
                        n \in DrawsAtStart(deckMultiple)} :
           StartsAs(self)
    /\ calls = 0
    /\ hand = <<>>
    /\ result = NoResult

CanCall == pc # "exited" /\ calls < MaxCalls

Called(after) ==
    /\ Becomes(after)
    /\ calls' = calls + 1
    /\ UNCHANGED <<evalVars, deckMultiple>>

DeckShuffle ==
    /\ CanCall
    /\ \E after \in {shuffleDeck(Self, nums) : nums \in ShuffleChoices(Len(cardsInDeck))} :
           Called(after)

DeckGetCard ==
    /\ CanCall
    /\ \E after \in {getCardFromDeck(Self)} : Called(after)

DeckAddAll ==
    /\ CanCall
    /\ \E after \in {addAllCardsBackIntoDeck(Self)} : Called(after)

DeckAddSpecific ==
    /\ CanCall
    /\ \E after \in {addSpecificCardsBackIntoDeck(Self, cardList) : cardList \in CardLists} :
           Called(after)

NextDeck == DeckShuffle \/ DeckGetCard \/ DeckAddAll \/ DeckAddSpecific

SpecDeck == InitDeck /\ [][NextDeck]_vars

-----------------------------------------------------------------------------
(* Properties of the game (under Spec).  A handler applied to Self gives    *)
(* the game as the handler would leave it if it ran in the current state.  *)

\* What a bet may change: balances, pot, wager, amount at risk, community
\* cards, folded flag, winner and hand labels.
BettingState(self) ==
    <<self.userMoney, self.computerMoney, self.currentPot, self.currentWager,
      self.currentBeingRisked, self.displayCards, self.cardsInDisplay,
      self.userFolded, self.winner, self.userHand, self.computerHand>>

RoundInProgress == pc = "events" /\ ~roundHasEnded

BetsBlocked == pc = "events" /\ (roundHasEnded \/ computerHasTurn)

\* The clicks that are over Fold, Call or Raise and over no other button.
BetOnlyPositions ==
    {pos \in MousePositions :
        /\ \/ mouseIsOver(foldButton, pos)
           \/ mouseIsOver(callButton, pos)
           \/ mouseIsOver(raiseButton, pos)
        /\ ~mouseIsOver(newRoundButton, pos)
        /\ ~mouseIsOver(exitGameButton, pos)}

\* C1: a Fold, Call or Raise that arrives by key or by click while the round
\* is over or the computer's delay is pending changes none of the balances,
\* pot, wager, amount at risk, community cards, folded flag, winner and hand
\* labels.
BlockedBetIsNoOp ==
    BetsBlocked =>
        /\ \A key \in FoldKeys, elapsed \in BOOLEAN :
               BettingState(keyDown(Self, key, elapsed)) = BettingState(Self)
        /\ \A pos \in BetOnlyPositions, picks \in Deals :
               BettingState(mouseButtonDown(Self, pos, picks)) = BettingState(Self)

\* Two = 2, ..., King = 13, Ace = 14.
RankOf(card) == IF TYPES[card.t] = "Ace" THEN Len(TYPES) + 1 ELSE card.t

HighestRank(cards) == Largest({RankOf(cards[k]) : k \in 1..Len(cards)})

ByHighestRank(user, computer) ==
    IF user > computer THEN "User"
    ELSE IF user < computer THEN "Computer"
    ELSE "Nobody"

\* The place of a hand label in _CARD_HANDS; a label that is no category
\* comes after every category.
Category(label) ==
    IF \E k \in 1..Len(CARD_HANDS) : CARD_HANDS[k] = label
    THEN CHOOSE k \in 1..Len(CARD_HANDS) : CARD_HANDS[k] = label
    ELSE Len(CARD_HANDS) + 1

\* All five community cards are shown and the user can place the last bet.
AtShowdown ==
    /\ RoundInProgress
    /\ ~computerHasTurn
    /\ cardsInDisplay = 5
    /\ userMoney >= currentWager

\* The last bet, by Call or by Raise: the game after it, and what each
\* player puts into the pot with it.
Showdowns ==
    {[after |-> call(Self), stake |-> currentWager]}
        \cup (IF raiseClickable /\ userMoney >= 2 * currentWager
              THEN {[after |-> raise(Self), stake |-> 2 * currentWager]}
              ELSE {})

\* The showdown ran to its end with both hands in the same category / in
\* different categories.
SameCategory(sd) ==
    /\ sd.after.pc = "events"
    /\ Category(sd.after.userHand) = Category(sd.after.computerHand)

DifferentCategories(sd) ==
    /\ sd.after.pc = "events"
    /\ Category(sd.after.userHand) # Category(sd.after.computerHand)

\* The pot (with the last bets in it) goes to the winner, or half of it to
\* each player when nobody wins, and the round is over.
PotPaid(sd) ==
    /\ sd.after.userMoney = (userMoney - sd.stake)
          + (IF sd.after.winner = "User" THEN currentPot + 2 * sd.stake
             ELSE IF sd.after.winner = "Nobody" THEN (currentPot + 2 * sd.stake) \div 2
             ELSE 0)
    /\ sd.after.computerMoney = (computerMoney - sd.stake)
          + (IF sd.after.winner = "Computer" THEN currentPot + 2 * sd.stake
             ELSE IF sd.after.winner = "Nobody" THEN (currentPot + 2 * sd.stake) \div 2
             ELSE 0)
    /\ sd.after.currentPot = 0
    /\ sd.after.roundHasEnded

\* C7 as the specification states it: with both hands in the same category,
\* the highest rank among each player's seven cards (hole cards and
\* community cards) decides, and equal highest ranks split the pot.
TieBreakOverSevenCards ==
    AtShowdown =>
        \A sd \in Showdowns :
            SameCategory(sd) =>
                /\ sd.after.winner =
                       ByHighestRank(
                           HighestRank(displayCards \o <<userCard1, userCard2>>),
                           HighestRank(displayCards \o <<computerCard1, computerCard2>>))
                /\ PotPaid(sd)

\* C7 as the code has it: with both hands in the same category, the highest
\* rank among each player's two hole cards decides (the community cards are
\* not looked at), and equal highest ranks make the round a push with the
\* pot split.
ShowdownTieBreak ==
    AtShowdown =>
        \A sd \in Showdowns :
            SameCategory(sd) =>
                /\ sd.after.winner =
                       ByHighestRank(HighestRank(<<userCard1, userCard2>>),
                                     HighestRank(<<computerCard1, computerCard2>>))
                /\ PotPaid(sd)

\* A showdown of two hands of one category has ended in a push.
ShowdownTieBreakReached ==
    /\ pc = "events"
    /\ roundHasEnded /\ ~userFolded
    /\ cardsInDisplay = 5
    /\ userHand = "One Pair" /\ computerHand = "One Pair"
    /\ HighestRank(<<userCard1, userCard2>>) = HighestRank(<<computerCard1, computerCard2>>)
    /\ winner = "Nobody"
    /\ userMoney = computerMoney

\* C8: at showdown, when the categories of the two hands differ, the player
\* whose category comes first in _CARD_HANDS (a hand of no category coming
\* after every category) is the winner and receives the whole pot, and the
\* round is over.
StrongerHandWins ==
    AtShowdown =>
        \A sd \in Showdowns :
            DifferentCategories(sd) =>
                /\ sd.after.winner =
                       (IF Category(sd.after.userHand) < Category(sd.after.computerHand)
                        THEN "User" ELSE "Computer")
                /\ PotPaid(sd)

\* A showdown of One Pair against a hand of no category has been won.
StrongerHandWinsReached ==
    /\ pc = "events"
    /\ roundHasEnded /\ ~userFolded
    /\ cardsInDisplay = 5
    /\ userHand = "One Pair"
    /\ Category(computerHand) = Len(CARD_HANDS) + 1
    /\ winner = "User"
    /\ userMoney > START_BALANCE

\* The ways a Fold can arrive in the current state: by key, or by a click
\* on Fold when it is not the computer's turn.
Folds ==
    {fold(Self)}
        \cup {keyDown(Self, key, TRUE) : key \in FoldKeys}
        \cup (IF computerHasTurn THEN {}
              ELSE {mouseButtonDown(Self, <<30, 45>>, DealList[1])})

\* C9: a Fold during a round in progress adds the pot to the computer's
\* balance, leaves the user's balance as it is, empties the pot, marks the
\* user as folded and the computer as winner, and ends the round.
FoldGivesPotToComputer ==
    RoundInProgress =>
        \A after \in Folds :
            /\ after.computerMoney = computerMoney + currentPot
            /\ after.userMoney = userMoney
            /\ after.currentPot = 0
            /\ after.userFolded
            /\ after.winner = "Computer"
            /\ after.roundHasEnded

\* The user has folded after one call: the pot of two bets is the computer's.
FoldGivesPotToComputerReached ==
    /\ pc = "events"
    /\ userFolded /\ roundHasEnded
    /\ winner = "Computer"
    /\ currentPot = 0
    /\ userMoney = START_BALANCE - MINIMUM_BET_WAGE
    /\ computerMoney = START_BALANCE + MINIMUM_BET_WAGE

\* C10: a Raise when the user's balance is below twice the current wager
\* changes nothing of the game, however often it is repeated, whether
\* __raise is reached or the click on Raise is dropped before it.
RaiseWithoutFundsChangesNothing ==
    (pc = "events" /\ userMoney < 2 * currentWager) =>
        /\ raise(Self) = Self
        /\ raise(raise(Self)) = Self
        /\ RoundInProgress =>
               \A pos \in {p \in MousePositions : mouseIsOver(raiseButton, p)},
                  picks \in Deals :
                   mouseButtonDown(Self, pos, picks) = Self

\* The flop is shown, it is the user's turn, the balance is too small for a
\* Raise, and a Raise leaves the game as it is.
RaiseWithoutFundsReached ==
    /\ RoundInProgress
    /\ ~computerHasTurn
    /\ cardsInDisplay = 3
    /\ userMoney < 2 * currentWager
    /\ raise(Self) = Self

-----------------------------------------------------------------------------
(* Properties of the evaluator (under SpecEval) *)

\* The cards of a list in the order of a new deck.
InDeckOrder(cards) ==
    SelectSeq(NewDeck(1), LAMBDA c : \E k \in 1..Len(cards) : cards[k] = c)

\* C2: checkHand gives every ordering of the same seven cards the same
\* result.
CheckHandOrderIndependent ==
    result.fn = "checkHand" => result.out = CheckHandOf(InDeckOrder(hand))

FiveCardSubsets(cards) ==
    {S \in SUBSET {cards[k] : k \in 1..Len(cards)} : Cardinality(S) = 5}

\* The sets of cards of the lists checkHand hands to the predicates.
TestedSubsets(cards) ==
    {{Temps(cards)[x][k] : k \in 1..5} : x \in DOMAIN Temps(cards)}

\* Predicate c (1 for isRoyalFlush, ..., 9 for isOnePair) returns True on
\* one of the lists checkHand tests.
Satisfied(c, cards) ==
    \E x \in DOMAIN Temps(cards) : CallFunction(c - 1, Temps(cards)[x]) = "True"

\* C3: checkHand tests each of the 21 five-card subsets, and returns category
\* c exactly when a subset satisfies the predicate of c and none satisfies
\* the predicate of a stronger category.
CheckHandFirstCategory ==
    result.fn = "checkHand" =>
        /\ TestedSubsets(hand) = FiveCardSubsets(hand)
        /\ \A c \in 1..Len(functions) :
               (result.out = CARD_HANDS[c])
                   <=> (Satisfied(c, hand) /\ \A b \in 1..(c - 1) : ~Satisfied(b, hand))

\* C4: isFlush returns True exactly for five cards of one suit.
FlushIffOneSuit ==
    result.fn = "isFlush" =>
        (result.out = "True" <=> \A i, j \in 1..Len(hand) : hand[i].s = hand[j].s)

\* C5: isStraight returns True for five consecutive ranks, the Ace high, and
\* for Ace, Two, Three, Four, Five, and False for every other five cards.
StraightIffConsecutive ==
    result.fn = "isStraight" =>
        result.out =
            Bool(\/ \E low \in 2..10 :
                       {RankOf(hand[k]) : k \in 1..Len(hand)} = low..(low + 4)
                 \/ {hand[k].t : k \in 1..Len(hand)} = 1..5)

\* C6: each of the nine predicates returns True or False on five distinct
\* cards of the deck.
PredicatesReturnBoolean ==
    (result # NoResult /\ Len(hand) = 5) => result.out \in {"True", "False"}

-----------------------------------------------------------------------------
(* Properties of the balances and the pot (under Spec) *)

\* The ways a Call can arrive in the current state: __call itself, and a
\* click on Call when it is not the computer's turn.
Calls ==
    {call(Self)}
        \cup (IF computerHasTurn THEN {}
              ELSE {mouseButtonDown(Self, <<115, 45>>, DealList[1])})

\* C11: a Call made when the user's balance is below the current wager ends
\* with both balances at the starting balance, the pot and the amount at
\* risk at 0, the user marked as folded, the computer as winner and the
\* round over.
BankruptCallResets ==
    (RoundInProgress /\ userMoney - currentWager < 0) =>
        \A after \in Calls :
            /\ after.userMoney = START_BALANCE
            /\ after.computerMoney = START_BALANCE
            /\ after.currentPot = 0
            /\ after.currentBeingRisked = 0
            /\ after.userFolded
            /\ after.winner = "Computer"
            /\ after.roundHasEnded

\* It is the user's turn with a balance below the wager and money in the
\* pot, and a Call brings the user's balance back to the starting balance.
BankruptCallReached ==
    /\ RoundInProgress
    /\ ~computerHasTurn
    /\ userMoney - currentWager < 0
    /\ currentPot > 0
    /\ computerMoney # START_BALANCE
    /\ call(Self).userMoney = START_BALANCE
    /\ call(Self).roundHasEnded

\* C12: the computer's balance is non-negative in every reachable state.
ComputerBalanceNonNegative == computerMoney >= 0

\* C13: the user's balance is non-negative in every reachable state, and a
\* Call or a Raise made in a round in progress leaves it non-negative: the
\* wager is deducted only when the balance covers it.
HumanBalanceNonNegative ==
    /\ userMoney >= 0
    /\ RoundInProgress =>
           /\ \A after \in Calls : after.userMoney >= 0
           /\ raise(Self).userMoney >= 0
           /\ (raise(Self).userMoney < userMoney) => userMoney >= 2 * currentWager
           /\ (call(Self).userMoney < userMoney) => userMoney >= currentWager

\* The user's last money is in the pot and it is the user's turn to bet.
HumanBalanceAtZero ==
    /\ RoundInProgress
    /\ ~computerHasTurn
    /\ userMoney = 0
    /\ currentPot > 0

\* The step ends the round with the whole pot (the bets of the step in it)
\* credited to the winner, or half of it to each player when nobody wins.
PotDisbursed ==
    /\ currentPot' = 0
    /\ userMoney' + computerMoney' = userMoney + computerMoney + currentPot
    /\ winner' \in {"User", "Computer", "Nobody"}
    /\ (winner' = "User") => computerMoney' <= computerMoney
    /\ (winner' = "Computer") => userMoney' <= userMoney
    /\ (winner' = "Nobody") => userMoney' - userMoney = computerMoney' - computerMoney

\* The step is a Call the user's balance does not cover: the pot is dropped
\* and both balances start again.
PotDropped ==
    /\ userMoney - currentWager < 0
    /\ currentPot' = 0
    /\ userMoney' = START_BALANCE
    /\ computerMoney' = START_BALANCE
    /\ userFolded' /\ winner' = "Computer"

PotGrows == (RoundInProgress /\ ~roundHasEnded') => currentPot' >= currentPot

\* C14 as the specification states it: while a round is in progress the pot
\* never decreases, and every end of a round (showdown, fold or a Call the
\* balance does not cover) credits the whole pot to one player or splits it
\* between the two, leaving the pot at 0.
PotGoesToPlayers ==
    [][/\ PotGrows
       /\ (RoundInProgress /\ roundHasEnded') => PotDisbursed]_vars

\* C14 as the code has it: while a round is in progress the pot never
\* decreases; a round that ends by showdown or by Fold credits the whole pot
\* to one player or splits it between the two, leaving the pot at 0; a round
\* that ends by a Call the balance does not cover credits the pot to nobody:
\* the pot is set to 0 and both balances to the starting balance.
PotGoesToPlayersOrIsReset ==
    [][/\ PotGrows
       /\ (RoundInProgress /\ roundHasEnded') => (PotDisbursed \/ PotDropped)]_vars

\* A showdown has given the computer a pot.
PotGoesToPlayersReached ==
    /\ pc = "events"
    /\ roundHasEnded /\ ~userFolded
    /\ winner = "Computer"
    /\ currentPot = 0
    /\ computerMoney > START_BALANCE
    /\ userMoney + computerMoney = 2 * START_BALANCE

\* C15: the pot is even in every reachable state, and a showdown that ends
\* in a push credits each player exactly half of the pot (the last bets in
\* it): the two credits are equal and sum to the pot.
SplitIsExact ==
    /\ currentPot % 2 = 0
    /\ AtShowdown =>
           \A sd \in Showdowns :
               (sd.after.pc = "events" /\ sd.after.winner = "Nobody") =>
                   /\ (currentPot + 2 * sd.stake) % 2 = 0
                   /\ 2 * (sd.after.userMoney - (userMoney - sd.stake))
                          = currentPot + 2 * sd.stake
                   /\ 2 * (sd.after.computerMoney - (computerMoney - sd.stake))
                          = currentPot + 2 * sd.stake
                   /\ sd.after.userMoney + sd.after.computerMoney
                          = userMoney + computerMoney + currentPot
                   /\ sd.after.currentPot = 0

\* A push has been paid: nobody won and both players have their bets back.
SplitIsExactReached ==
    /\ pc = "events"
    /\ roundHasEnded /\ ~userFolded
    /\ winner = "Nobody"
    /\ currentPot = 0
    /\ userMoney + computerMoney = 2 * START_BALANCE

-----------------------------------------------------------------------------
(* Properties of a new round (under Spec) *)

\* A round can be started: run() has not begun, or the round is over.
CanStartRound == pc = "start" \/ (pc = "events" /\ roundHasEnded)

\* The ways a round can start in the current state: __startNewRound itself
\* (called in run()'s loop or at its head) and, once the round is over, a
\* click on Start New Round.
NewRounds ==
    {startNewRound([Self EXCEPT !.pc = "events"], picks) : picks \in Deals}
        \cup (IF pc = "events" /\ roundHasEnded /\ ~computerHasTurn /\ newRoundClickable
              THEN {mouseButtonDown(Self, <<195, 45>>, picks) : picks \in Deals}
              ELSE {})

\* C16: after every __startNewRound the pot is 0, the wager is the minimum
\* bet, the amount at risk is 0, the round is not over and no community card
\* is shown; the whole deck was in cardsInDeck when it was shuffled; the four
\* hole cards are pairwise distinct and deckMultiple * 52 - 4 cards are left
\* in the deck.
NewRoundStartsAfresh ==
    CanStartRound =>
        /\ addAllCardsBackIntoDeck(ResetRound(Self)).cardsOutOfDeck = <<>>
        /\ Len(addAllCardsBackIntoDeck(ResetRound(Self)).cardsInDeck)
               = deckMultiple * Len(TYPES) * Len(SUITS)
        /\ \A after \in NewRounds :
               /\ after.currentPot = 0
               /\ after.currentWager = MINIMUM_BET_WAGE
               /\ after.currentBeingRisked = 0
               /\ ~after.roundHasEnded
               /\ after.cardsInDisplay = 0
               /\ Cardinality({after.userCard1, after.userCard2,
                               after.computerCard1, after.computerCard2}) = 4
               /\ {after.userCard1, after.userCard2,
                   after.computerCard1, after.computerCard2} \subseteq DeckCards
               /\ Len(after.cardsInDeck)
                      = deckMultiple * Len(TYPES) * Len(SUITS) - 4

\* A later round has just been dealt.
NewRoundStartsAfreshReached ==
    /\ pc = "events"
    /\ rounds >= 2
    /\ ~roundHasEnded
    /\ cardsInDisplay = 0
    /\ currentPot = 0 /\ currentBeingRisked = 0
    /\ Len(cardsOutOfDeck) = 4
    /\ Len(cardsInDeck) = deckMultiple * Len(TYPES) * Len(SUITS) - 4

\* C17: after __startNewRound none of the five community slots holds a card
\* of the round before (each holds the Empty card of construction again), so
\* a hand evaluated in the new round before the flop sees no community card.
NewRoundClearsCommunityCards ==
    CanStartRound =>
        \A after \in NewRounds :
            /\ \A k \in 1..Len(after.displayCards) : after.displayCards[k] = EmptyCard
            /\ \A k \in 1..Len(after.displayCards) :
                   after.displayCards[k] \notin
                       {displayCards[j] : j \in 1..cardsInDisplay}

-----------------------------------------------------------------------------
(* Properties of the Deck (under SpecDeck).                                *)

\* How many times the card is in the sequence.
CopiesOf(card, cards) == Cardinality({k \in 1..Len(cards) : cards[k] = card})

\* The positions 0..n-1 of a list of n cards, as the list <<1, ..., n>>.
Positions(n) == [k \in 1..n |-> k]

\* The orderings of n positions.
Orderings(n) ==
    {p \in [1..n -> 1..n] : \A a, b \in 1..n : a # b => p[a] # p[b]}

\* C18: for a deck built with multiple N, the in-deck and the out-of-deck
\* lists hold N x 52 cards together, after construction and after any
\* sequence of shuffle, getCardFromDeck, addAllCardsBackIntoDeck and
\* addSpecificCardsBackIntoDeck.
DeckCountKept ==
    Len(cardsInDeck) + Len(cardsOutOfDeck) = deckMultiple * 52

\* C18 happens: methods have been called, and a card that is out of the
\* deck is about to be taken back by addSpecificCardsBackIntoDeck.
DeckCountKeptReached ==
    /\ calls > 0
    /\ Len(cardsOutOfDeck) > 1
    /\ \E cardList \in CardLists :
           Len(addSpecificCardsBackIntoDeck(Self, cardList).cardsInDeck)
               = Len(cardsInDeck) + Len(cardList)
           /\ Len(cardList) > 1

\* C19: after any sequence of the Deck's operations the in-deck and the
\* out-of-deck lists together hold every rank and suit pair exactly
\* deckMultiple times: no card is duplicated and none is lost.
DeckHoldsEveryCard ==
    \A card \in DeckCards :
        CopiesOf(card, cardsInDeck \o cardsOutOfDeck) = deckMultiple

\* C20: shuffle leaves the out-of-deck list unchanged and leaves the in-deck
\* list a permutation of what it was (the card at position k after the
\* shuffle is the card that was at the position the shuffle of the positions
\* puts at k); and for an in-deck list of n cards every one of the n!
\* orderings comes from exactly one sequence of random numbers.
ShuffleIsUnbiased ==
    /\ \A nums \in ShuffleChoices(Len(cardsInDeck)) :
           \A after \in {shuffleDeck(Self, nums)} :
               \A order \in {ShuffleWith(Positions(Len(cardsInDeck)), nums, 0)} :
                   /\ after.cardsOutOfDeck = cardsOutOfDeck
                   /\ Len(after.cardsInDeck) = Len(cardsInDeck)
                   /\ Len(order) = Len(cardsInDeck)
                   /\ {order[k] : k \in 1..Len(order)} = 1..Len(cardsInDeck)
                   /\ \A k \in 1..Len(cardsInDeck) :
                          after.cardsInDeck[k] = cardsInDeck[order[k]]
    /\ Len(cardsInDeck) <= MaxShuffled =>
           /\ {ShuffleWith(Positions(Len(cardsInDeck)), nums, 0) :
                   nums \in RandomChoices(Len(cardsInDeck))}
                  = Orderings(Len(cardsInDeck))
           /\ Cardinality(RandomChoices(Len(cardsInDeck)))
                  = Cardinality(Orderings(Len(cardsInDeck)))

\* C20 happens: a deck of MaxShuffled cards, with cards out of the deck, has
\* just been shuffled into another order by a call of shuffle.
ShuffleIsUnbiasedReached ==
    /\ calls = 1
    /\ Len(cardsInDeck) = MaxShuffled
    /\ Len(cardsOutOfDeck) = 52 * deckMultiple - MaxShuffled
    /\ cardsInDeck # SubSeq(NewDeck(deckMultiple), 1, MaxShuffled)
    /\ {cardsInDeck[k] : k \in 1..MaxShuffled}
           = {NewDeck(deckMultiple)[k] : k \in 1..MaxShuffled}

-----------------------------------------------------------------------------
(* Properties of named hands (under SpecEval).                             *)

\* The cards of a list, as a set.
CardsOf(cards) == {cards[k] : k \in 1..Len(cards)}

RoyalFlushSeven ==
    {Card("Ten", "Spades"), Card("Jack", "Spades"), Card("Queen", "Spades"),
     Card("King", "Spades"), Card("Ace", "Spades"), Card("Two", "Hearts"),
     Card("Three", "Diamonds")}

WheelSeven ==
    {Card("Ace", "Spades"), Card("Two", "Diamonds"), Card("Three", "Hearts"),
     Card("Four", "Clubs"), Card("Five", "Spades"), Card("Nine", "Diamonds"),
     Card("King", "Hearts")}

\* C26: checkHand of the seven cards 10S JS QS KS AS 2H 3D, placed in the
\* community and hole slots in any order, returns Royal Flush.
RoyalFlushSevenIsRoyalFlush ==
    (result.fn = "checkHand" /\ CardsOf(hand) = RoyalFlushSeven)
        => result.out = "Royal Flush"

\* C27: checkHand of the seven cards AS 2D 3H 4C 5S 9D KH, placed in the
\* community and hole slots in any order, returns Straight (the Ace low).
WheelSevenIsStraight ==
    (result.fn = "checkHand" /\ CardsOf(hand) = WheelSeven)
        => result.out = "Straight"

\* C26 happens: checkHand has been called with the two low cards in the
\* first community slots and the Ace of Spades as the last hole card.
RoyalFlushSevenReached ==
    /\ result.fn = "checkHand"
    /\ CardsOf(hand) = RoyalFlushSeven
    /\ hand[1] = Card("Two", "Hearts")
    /\ hand[2] = Card("Three", "Diamonds")
    /\ hand[7] = Card("Ace", "Spades")
    /\ result.out = "Royal Flush"

\* C27 happens: checkHand has been called with the Ace of Spades and the
\* Five of Spades as the hole cards, the King and the Nine between the
\* low cards on the table.
WheelSevenReached ==
    /\ result.fn = "checkHand"
    /\ CardsOf(hand) = WheelSeven
    /\ hand[2] = Card("King", "Hearts")
    /\ hand[4] = Card("Nine", "Diamonds")
    /\ hand[6] = Card("Ace", "Spades")
    /\ hand[7] = Card("Five", "Spades")
    /\ result.out = "Straight"

-----------------------------------------------------------------------------
(* Properties of drawing a card (under SpecDeck).                          *)

\* The deck a call of getCardFromDeck would leave.
AfterDraw == getCardFromDeck(Self)

\* C21: getCardFromDeck on an empty in-deck list ends with an error (exit
\* with a message) and leaves both lists as they were; on a list that is not
\* empty it takes the last card off the in-deck list and appends that same
\* card to the out-of-deck list.
DrawMovesTopCard ==
    pc # "exited" =>
        IF cardsInDeck = <<>>
        THEN /\ AfterDraw.pc = "exited"
             /\ AfterDraw.cardsInDeck = cardsInDeck
             /\ AfterDraw.cardsOutOfDeck = cardsOutOfDeck
        ELSE /\ AfterDraw.pc = pc
             /\ Len(AfterDraw.cardsOutOfDeck) = Len(cardsOutOfDeck) + 1
             /\ AfterDraw.cardsInDeck
                    \o <<AfterDraw.cardsOutOfDeck[Len(AfterDraw.cardsOutOfDeck)]>>
                    = cardsInDeck
             /\ SubSeq(AfterDraw.cardsOutOfDeck, 1, Len(cardsOutOfDeck))
                    = cardsOutOfDeck

\* C21 happens: a call of getCardFromDeck has found the deck empty, after
\* other calls that left it empty.
DrawMovesTopCardReached ==
    /\ pc = "exited"
    /\ calls > 1
    /\ cardsInDeck = <<>>
    /\ Len(cardsOutOfDeck) = deckMultiple * 52

-----------------------------------------------------------------------------
(* Properties of the cards and the money in play (under Spec).             *)

\* C28: in every reachable state of the game at most 9 cards are out of the
\* deck (4 hole cards and at most 5 community cards), so getCardFromDeck
\* never finds the 52-card deck empty, whatever the calls, raises, folds,
\* expiries of the computer's wait and new rounds.
NineCardsSuffice ==
    /\ Len(cardsOutOfDeck) <= 9
    /\ Len(cardsInDeck) + Len(cardsOutOfDeck) = 52
    /\ pc # "exited"

\* C28 happens: in a later round, a fold by key on a round that was over
\* already, all nine cards out.
NineCardsSufficeReached ==
    /\ rounds > 1
    /\ Len(cardsOutOfDeck) = 9
    /\ roundHasEnded
    /\ userFolded
    /\ winner = "Computer"
    /\ userHand # "None"
    /\ startTime = 0
    /\ userMoney > START_BALANCE

\* C29: the computer mirrors the human's bets: in every reachable state the
\* pot is twice the amount the human has at risk, both are 0 once the round
\* is over, and the computer neither folds (the human wins by showdown only)
\* nor raises.
ComputerMirrorsHuman ==
    /\ currentPot = 2 * currentBeingRisked
    /\ roundHasEnded => (currentPot = 0 /\ currentBeingRisked = 0)
    /\ winner = "User" => (cardsInDisplay = 5 /\ ~userFolded)

\* C29 happens: the round is in progress on the turn, the human has called
\* and raised, and the computer has matched each bet.
ComputerMirrorsHumanReached ==
    /\ pc = "events"
    /\ ~roundHasEnded
    /\ cardsInDisplay = 4
    /\ currentBeingRisked = 3 * MINIMUM_BET_WAGE
    /\ currentPot = 6 * MINIMUM_BET_WAGE

\* C30: the money is conserved: the two balances and the pot add up to twice
\* the starting balance in every reachable state.
MoneyIsConserved ==
    userMoney + computerMoney + currentPot = 2 * START_BALANCE

\* C30 happens: rounds have been won and lost, and a pot is on the table.
MoneyIsConservedReached ==
    /\ rounds > 1
    /\ userMoney # computerMoney
    /\ currentPot > 0
    /\ cardsInDisplay = 5
    /\ userMoney + computerMoney < 2 * START_BALANCE

-----------------------------------------------------------------------------
(* Properties of the course of a round (under Spec).                       *)

\* The step is a call of __startNewRound (run's first, or New Round's).
StartsRound == rounds' = rounds + 1

\* C22: within one round the number of community cards shown is 0, 3, 4 or 5
\* and never decreases, a round that is over stays over, and only
\* __startNewRound takes the game back to 0 cards shown and a round that is
\* not over.
RevealsInOrder ==
    [][/\ cardsInDisplay' \in {0, 3, 4, 5}
       /\ ~StartsRound => /\ cardsInDisplay' >= cardsInDisplay
                          /\ roundHasEnded => roundHasEnded'
       /\ ((cardsInDisplay # 0 \/ roundHasEnded)
              /\ cardsInDisplay' = 0 /\ ~roundHasEnded') => StartsRound]_vars

\* C22 happens: a later round has gone through the flop, the turn and the
\* river to a showdown.
RevealsInOrderReached ==
    /\ rounds > 1
    /\ cardsInDisplay = 5
    /\ roundHasEnded
    /\ ~userFolded
    /\ winner \in {"User", "Computer", "Nobody"}
    /\ ~computerHasTurn

\* C24: but for the call run makes first, __startNewRound is executed only
\* when the round is over and the computer's wait is not pending, so that no
\* wait of the round before is pending in the new round: before the first
\* bet of a round the computer has no turn.
NewRoundOnlyWhenOver ==
    [][/\ (StartsRound /\ pc = "events") =>
              (roundHasEnded /\ ~computerHasTurn /\ ~computerHasTurn')
       /\ (cardsInDisplay' = 0 /\ ~roundHasEnded' /\ currentBeingRisked' = 0)
              => ~computerHasTurn']_vars

\* C24 happens: New Round has been clicked after a showdown that followed a
\* Call or Raise, and the new round is dealt with no wait pending.
NewRoundOnlyWhenOverReached ==
    /\ pc = "events"
    /\ rounds > 1
    /\ cardsInDisplay = 0
    /\ ~roundHasEnded
    /\ currentBeingRisked = 0
    /\ ~computerHasTurn
    /\ userMoney + computerMoney = 2 * START_BALANCE
    /\ userMoney \notin {START_BALANCE, MINIMUM_BET_WAGE,
                         2 * START_BALANCE - MINIMUM_BET_WAGE}

\* A Raise would be accepted: the round is in progress, the computer's wait
\* is not pending and the balance covers twice the wager.
RaiseAccepted ==
    /\ pc = "events"
    /\ ~roundHasEnded
    /\ ~computerHasTurn
    /\ userMoney >= 2 * currentWager

\* The game a call of __raise would leave.
AfterRaise == raise(Self)

\* What the showdown of a Raise pays: the pot with the two doubled wagers.
RaisedPot == currentPot + 4 * currentWager

\* C25: an accepted Raise doubles currentWager, takes the doubled wager from
\* the human's balance and from the computer's, adds it to the amount at
\* risk and twice to the pot.  With fewer than five community cards shown it
\* shows none and starts the computer's wait; with five shown it resolves
\* the showdown in the same step: the round is over and the pot, the two
\* doubled wagers in it, is paid to the winner or split.
RaiseDoublesWager ==
    RaiseAccepted =>
        IF cardsInDisplay < 5
        THEN /\ AfterRaise.currentWager = 2 * currentWager
             /\ AfterRaise.userMoney = userMoney - 2 * currentWager
             /\ AfterRaise.computerMoney = computerMoney - 2 * currentWager
             /\ AfterRaise.currentBeingRisked = currentBeingRisked + 2 * currentWager
             /\ AfterRaise.currentPot = RaisedPot
             /\ AfterRaise.cardsInDisplay = cardsInDisplay
             /\ AfterRaise.displayCards = displayCards
             /\ AfterRaise.computerHasTurn
             /\ ~AfterRaise.roundHasEnded
             /\ AfterRaise.pc = pc
        ELSE /\ AfterRaise.pc = pc
             /\ AfterRaise.roundHasEnded
             /\ AfterRaise.currentPot = 0
             /\ AfterRaise.winner \in {"User", "Computer", "Nobody"}
             /\ AfterRaise.winner = "User" =>
                    /\ AfterRaise.userMoney = userMoney - 2 * currentWager + RaisedPot
                    /\ AfterRaise.computerMoney = computerMoney - 2 * currentWager
             /\ AfterRaise.winner = "Computer" =>
                    /\ AfterRaise.userMoney = userMoney - 2 * currentWager
                    /\ AfterRaise.computerMoney = computerMoney - 2 * currentWager + RaisedPot
             /\ AfterRaise.winner = "Nobody" =>
                    /\ 2 * AfterRaise.userMoney = 2 * userMoney - 4 * currentWager + RaisedPot
                    /\ 2 * AfterRaise.computerMoney
                           = 2 * computerMoney - 4 * currentWager + RaisedPot


-----------------------------------------------------------------------------
(* Properties of the computer's wait (under SpecFair).                     *)

\* A Call or a Raise would be accepted.
CallAccepted ==
    pc = "events" /\ ~roundHasEnded /\ ~computerHasTurn /\ userMoney - currentWager >= 0

\* The game the pass of the loop that finds the wait elapsed would leave.
AfterWait == frame(Self, TRUE)

\* The number of cards shown after the next reveal.
NextTranche(n) == IF n = 0 THEN 3 ELSE IF n = 3 THEN 4 ELSE 5

\* An accepted Call or Raise starts the wait, and the expiry of a wait
\* clears it and shows the next cards, the wager back at the minimum.
WaitStartsAndEnds ==
    /\ CallAccepted => call(Self).computerHasTurn
    /\ RaiseAccepted => raise(Self).computerHasTurn
    /\ (pc = "events" /\ computerHasTurn) =>
           /\ ~AfterWait.computerHasTurn
           /\ AfterWait.pc = pc
           /\ cardsInDisplay < 5 =>
                  /\ AfterWait.cardsInDisplay = NextTranche(cardsInDisplay)
                  /\ AfterWait.currentWager = MINIMUM_BET_WAGE
                  /\ Len(AfterWait.cardsOutOfDeck)
                         = Len(cardsOutOfDeck) + NextTranche(cardsInDisplay) - cardsInDisplay
           /\ cardsInDisplay = 5 =>
                  /\ AfterWait.cardsInDisplay = 5
                  /\ AfterWait.cardsOutOfDeck = cardsOutOfDeck

\* A wait starts with an accepted Call or Raise only, and cards are shown,
\* but for a fold, by the expiry of a wait only, one tranche for a wait.
WaitOnlyAfterBet ==
    /\ (~computerHasTurn /\ computerHasTurn') =>
           \/ CallAccepted /\ Self' = call(Self)
           \/ RaiseAccepted /\ raiseClickable /\ Self' = raise(Self)
    /\ (cardsInDisplay' > cardsInDisplay /\ ~userFolded') =>
           /\ computerHasTurn /\ ~computerHasTurn'
           /\ cardsInDisplay' = NextTranche(cardsInDisplay)

\* C23: every accepted Call or Raise starts the computer's wait; as long as
\* the loop keeps passing the wait expires in the end; at its expiry the wait
\* is cleared and, with fewer than five community cards shown, exactly the
\* next tranche is shown (0 to 3, 3 to 4, 4 to 5) and currentWager is the
\* minimum again; no tranche is shown by the timer without an accepted Call
\* or Raise before it.
WaitExpiresAndReveals ==
    /\ []WaitStartsAndEnds
    /\ [][WaitOnlyAfterBet]_vars
    /\ (pc = "events" /\ computerHasTurn) ~> (~computerHasTurn \/ pc # "events")

\* C23 happens: the wait that a bet on the flop started has expired and the
\* turn is shown, the wager back at the minimum.
WaitExpiresAndRevealsReached ==
    /\ pc = "events"
    /\ ~computerHasTurn
    /\ ~roundHasEnded
    /\ cardsInDisplay = 4
    /\ currentWager = MINIMUM_BET_WAGE
    /\ currentBeingRisked >= 4 * MINIMUM_BET_WAGE


-----------------------------------------------------------------------------
(* Properties of a round that is over and of the wager (under Spec).       *)

\* C33: in every reachable state in which the computer's wait is not
\* pending, currentWager is the table minimum; it is twice the minimum only
\* while the wait a Raise started is pending, so that it is always the
\* minimum or twice the minimum.
WagerIsMinimumOrTwice ==
    /\ currentWager \in {MINIMUM_BET_WAGE, 2 * MINIMUM_BET_WAGE}
    /\ ~computerHasTurn => currentWager = MINIMUM_BET_WAGE
    /\ currentWager = 2 * MINIMUM_BET_WAGE =>
           (computerHasTurn /\ currentBeingRisked >= 2 * MINIMUM_BET_WAGE)

\* C33 happens: a Raise on the turn has doubled the wager and the wait is
\* pending.
WagerIsMinimumOrTwiceReached ==
    /\ pc = "events"
    /\ computerHasTurn
    /\ ~roundHasEnded
    /\ cardsInDisplay = 4
    /\ currentWager = 2 * MINIMUM_BET_WAGE

\* The step pays the pot of the round to the winner it records.
CreditsWinner ==
    /\ winner' = "User" =>
           (userMoney' > userMoney - currentWager' /\ computerMoney' <= computerMoney)
    /\ winner' = "Computer" => userMoney' <= userMoney
    /\ winner' = "Nobody" => userMoney' - userMoney = computerMoney' - computerMoney

\* C31: when a round is resolved the winner recorded is the party the pot of
\* the round is paid to (nobody when it is split), and winner, the folded
\* flag and the two balances stay as they are until __startNewRound,
\* whatever events arrive in between.
ResolvedRoundIsKept ==
    [][/\ (RoundInProgress /\ roundHasEnded' /\ pc' = "events"
              /\ userMoney - currentWager >= 0) => CreditsWinner
       /\ (pc = "events" /\ roundHasEnded /\ ~StartsRound) =>
              /\ winner' = winner
              /\ userFolded' = userFolded
              /\ userMoney' = userMoney
              /\ computerMoney' = computerMoney]_vars

\* The seven cards of a player once the round is over.
SevenOfUser == displayCards \o <<userCard1, userCard2>>
SevenOfComputer == displayCards \o <<computerCard1, computerCard2>>

\* C32: when a round has ended by a fold, the hand recorded for each player
\* is the evaluation of the player's two hole cards with the five community
\* cards on the table at the end of the round, seven distinct cards of the
\* deck.
FoldEvaluatesFinalTable ==
    (pc = "events" /\ roundHasEnded /\ userFolded) =>
        /\ cardsInDisplay = 5
        /\ Cardinality(CardsOf(SevenOfUser) \cup CardsOf(SevenOfComputer)) = 9
        /\ CardsOf(SevenOfUser) \cup CardsOf(SevenOfComputer) \subseteq DeckCards
        /\ userHand = CheckHandOn(SevenOfUser)
        /\ computerHand = CheckHandOn(SevenOfComputer)

=============================================================================
